---- MODULE Spec2Model ----
(***************************************************************************)
(* Mirrarr: the download manager (app/services/download_manager.py), the   *)
(* provider fan-out and the result selection (app/services/search.py),     *)
(* the routes that submit downloads (app/api/routes_api.py, routes_ui.py). *)
(*                                                                         *)
(* The specifications of this module:                                      *)
(*   Spec        the DownloadManager: queue, workers, executor threads,    *)
(*               retry timers, shutdown                                    *)
(*   LiveSpec    the DownloadManager without shutdown, with the fairness   *)
(*               of the event loop, the thread pool and the timers         *)
(*   StopSpec    LiveSpec with shutdown called at any time                 *)
(*   ShutSpec    the DownloadManager with shutdown followed through its    *)
(*               waits                                                     *)
(*   NameSpec    the DownloadManager with custom filenames and progress    *)
(*               events that carry every key                               *)
(*   WriteSpec   the DownloadManager with the completion of a transfer     *)
(*               followed statement by statement                           *)
(*   AggSpec     get_provider_results_for_movie / _for_episode             *)
(*   AggLiveSpec AggSpec with the fairness of the timeouts                 *)
(*   FetchSpec   AggSpec and get_single_provider_results_for_movie /       *)
(*               _for_episode                                              *)
(*   RankSpec    select_best_result over bounded result lists and settings *)
(*   RenameSpec  _rename_downloaded_file over bounded names and a disk     *)
(*   TieSpec     select_best_result over lists of three results            *)
(*   ApiSpec     the application with POST /api/download (routes_api.py)   *)
(*   RetrySpec   the application with retried jobs of different urls and   *)
(*               options                                                   *)
(*   AutoSpec    the auto-download routes (routes_ui.py): fan-out,         *)
(*               selection, submission                                     *)
(***************************************************************************)
EXTENDS Integers, Sequences, FiniteSets, TLC

VARIABLES
    download_status,   \* download_manager.py:88   id -> DownloadStatus
    temp_filenames,    \* download_manager.py:90   id -> downloaded file
                       \* (None: no entry; pop(id, None) reads both alike)
    jobs,              \* the DownloadJob dicts, by id (one object per job)
    queue,             \* DownloadManager.queue (asyncio.Queue), ids of jobs
    worker_tasks,      \* DownloadManager._worker_tasks
    wpc,               \* position of each _worker coroutine
    wjob,              \* the job each worker holds (0: none)
    tpc,               \* position of the executor call each worker made
    tret,              \* value returned by _run_yt_dlp (0: None)
    requeue_tasks,     \* DownloadManager._requeue_tasks
    phase,             \* lifespan position of the manager
    next_id,           \* number of ids handed out by add_download
    max_workers,       \* DownloadManager.max_workers
    sd_pc,             \* position of the shutdown coroutine
    sd_cancel          \* the re-queue tasks whose cancellation it requested

mvars == <<download_status, temp_filenames, jobs, queue, worker_tasks, wpc,
           wjob, tpc, tret, requeue_tasks, phase, next_id, max_workers,
           sd_pc, sd_cancel>>

VARIABLES
    agg_pc,            \* position of get_provider_results_for_movie/_episode
    agg_kind,          \* whether the movie or the episode function was called
    agg_provider_name, \* its provider_name argument (0: the function over
                       \* all providers, which has none)
    call,              \* each provider's get_movie/get_series_episode call
    call_ret,          \* what that call returned
    task_ret,          \* what fetch_from_provider returned for it
    agg_results        \* the list the call returned (empty until it returns)

avars == <<agg_pc, agg_kind, agg_provider_name, call, call_ret, task_ret,
           agg_results>>

VARIABLES
    rk_pc,             \* position of the select_best_result call
    rk_results,        \* its argument
    rk_pref,           \* settings.preferred_provider
    rk_limit,          \* settings.quality_limit, a sequence of characters
    rk_best            \* its return value: the position in rk_results of
                       \* the object returned, 0 for None

rvars == <<rk_pc, rk_results, rk_pref, rk_limit, rk_best>>

VARIABLES
    rn_pc,               \* position of the _rename_downloaded_file call
    rn_downloaded_file,  \* its arguments, sequences of characters
    rn_custom_filename,
    rn_files,            \* the files on disk, each the sequence of the
                         \* names on its path from the root
    rn_ret               \* its return value (<< >>: None)

nvars == <<rn_pc, rn_downloaded_file, rn_custom_filename, rn_files, rn_ret>>

VARIABLES
    h_pc,              \* position of the movie_auto / episode_auto handler
    h_ret              \* what the last call of a route handler answered

hvars == <<h_pc, h_ret>>

vars == <<mvars, avars, rvars, nvars, hvars>>

----------------------------------------------------------------------------
(* Bounds *)

MaxJobs == 2          \* add_download calls explored
MaxProviders == 3     \* providers registered

(* Program constants *)

max_concurrent_downloads == 2           \* DownloadManager.__init__, manager
retry_delays == <<5, 10, 20, 40, 80>>   \* _run_yt_dlp
max_retries  == Len(retry_delays)

None == "None"

Workers == 1..max_concurrent_downloads
JobIds  == 1..MaxJobs

----------------------------------------------------------------------------
(* DownloadManager: helpers *)

\* _run_yt_dlp: the classification of the raised error (lines 268-276).
\* The errors a transfer can raise, by the text the code searches in them.
ErrorKinds == {"429", "timeout", "fatal"}

is_rate_limit(e) == e = "429"
is_timeout(e)    == e = "timeout"

should_retry_always(e)   == TRUE
should_retry(e)          == is_rate_limit(e) \/ is_timeout(e)

\* line 278: should_retry and attempt < max_retries
will_retry(e, attempt) == should_retry(e) /\ attempt < max_retries

\* line 281: retry_delays[attempt] (Python indexes from 0)
retry_delay_first(attempt) == retry_delays[1]
retry_delay_of(attempt)    == retry_delays[attempt + 1]

\* lines 282, 289-291: the message stored while retrying
retry_message(e, attempt) ==
    [reason    |-> IF is_rate_limit(e) THEN "Rate limited" ELSE "Timed out",
     delay     |-> retry_delay_of(attempt),
     remaining |-> max_retries - attempt]

\* line 182: job["attempt"] = job.get("attempt", 0) + 1
requeue_attempt_keep(a) == a
requeue_attempt(a)      == a + 1

\* truthiness of a str | None value (if custom_filename: ...)
Truthy(s) == s # None /\ s # ""

\* lines 319-331: the status record add_download stores. Of DownloadStatus
\* (lines 60-73) the model keeps status, percent, filename, total_bytes and
\* error; id is the key; url, title and metadata are never written again;
\* speed and eta are written where percent is (lines 204-213), each from its
\* own key of the event, and read by nothing.
new_status(custom_filename) ==
    [status      |-> "queued",
     percent     |-> "0%",
     filename    |-> IF Truthy(custom_filename) THEN custom_filename ELSE None,
     total_bytes |-> None,
     error       |-> None]

\* line 331: download_status[download_id] = new_status
status_after_add_lost(ds, id, custom_filename) == ds
status_after_add_alone(ds, id, custom_filename) ==
    [k \in {id} |-> new_status(custom_filename)]
status_after_add(ds, id, custom_filename) ==
    [k \in DOMAIN ds \cup {id} |->
        IF k = id THEN new_status(custom_filename) ELSE ds[k]]

\* The job dicts no task, thread or queue refers to any more are dropped
Drop(js, ids) == [k \in DOMAIN js \ ids |-> js[k]]

\* the pool threads running _run_yt_dlp
InFlight == {w \in Workers : tpc[w] = "download"}

----------------------------------------------------------------------------
(* DownloadManager: initial state (module import and __init__, lines 88-103) *)

MInit ==
    /\ download_status = << >>
    /\ temp_filenames = [id \in JobIds |-> None]
    /\ jobs = << >>
    /\ queue = << >>
    /\ worker_tasks = {}
    /\ wpc = [w \in Workers |-> "none"]
    /\ wjob = [w \in Workers |-> 0]
    /\ tpc = [w \in Workers |-> "idle"]
    /\ tret = [w \in Workers |-> 0]
    /\ requeue_tasks = {}
    /\ phase = "created"
    /\ next_id = 1
    /\ sd_pc = "idle"
    /\ sd_cancel = {}
    /\ max_workers \in 1..max_concurrent_downloads

----------------------------------------------------------------------------
(* DownloadManager: operations *)

\* start_workers (lines 117-122), called once by download_manager_lifespan
start_workers ==
    /\ phase = "created"
    /\ phase' = "started"
    /\ worker_tasks' = 1..max_workers
    /\ wpc' = [w \in Workers |-> IF w <= max_workers THEN "get" ELSE wpc[w]]
    /\ UNCHANGED <<download_status, temp_filenames, jobs, queue, wjob, tpc,
                   tret, requeue_tasks, next_id, max_workers, avars, rvars, nvars, hvars,
                   sd_pc, sd_cancel>>

\* what the client_opts of add_download can be: None, {}, the dict of a
\* request body, or the get_yt_opts() of a provider
NoneOpts == [of |-> "None", provider |-> 0]
NoOpts == [of |-> "{}", provider |-> 0]
RequestOpts == [of |-> "request", provider |-> 0]

\* line 336: client_opts or {}
or_empty(client_opts) ==
    IF client_opts \in {NoneOpts, NoOpts} THEN NoOpts ELSE client_opts

\* "http://a", the url of the calls that do not tell the urls apart
SomeUrl == <<"h", "t", "t", "p", ":", "/", "/", "a">>

\* add_download (lines 301-342); uuid4 is a fresh id; queue.put on an
\* unbounded asyncio.Queue does not suspend, so the coroutine runs in one
\* step, which is a step of the handler that awaits it
add_download_call(url, client_opts, custom_filename) ==
    /\ next_id <= MaxJobs
    /\ download_status' = status_after_add(download_status, next_id, custom_filename)
    /\ jobs' = [k \in DOMAIN jobs \cup {next_id} |->
                  IF k = next_id
                  THEN [url |-> url, opts |-> or_empty(client_opts), attempt |-> 0,
                        custom_filename |-> custom_filename]
                  ELSE jobs[k]]
    /\ queue' = Append(queue, next_id)
    /\ next_id' = next_id + 1
    /\ UNCHANGED <<temp_filenames, worker_tasks, wpc, wjob, tpc, tret,
                   requeue_tasks, phase, max_workers, rvars, nvars,
                   sd_pc, sd_cancel>>

\* add_download called with some url and no options
add_download(custom_filename) ==
    /\ add_download_call(SomeUrl, NoneOpts, custom_filename)
    /\ UNCHANGED <<avars, hvars>>

\* _worker, lines 143-166: take a job, mark it downloading and hand the
\* blocking call to the executor, whose max_workers threads (line 99) are as
\* many as the workers, so a pool thread enters _run_yt_dlp and ydl.download
\* (lines 232-249) at once
worker_get_busy(w) ==
    /\ w \in worker_tasks
    /\ queue # << >>
    /\ LET id == Head(queue) IN
        /\ queue' = Tail(queue)
        /\ wjob' = [wjob EXCEPT ![w] = id]
        /\ wpc' = [wpc EXCEPT ![w] = "exec"]
        /\ tpc' = [tpc EXCEPT ![w] = "download"]
        /\ download_status' =
             IF id \in DOMAIN download_status
             THEN [download_status EXCEPT ![id].status = "downloading"]
             ELSE download_status
    /\ UNCHANGED <<temp_filenames, jobs, worker_tasks, tret, requeue_tasks,
                   phase, next_id, max_workers, avars, rvars, nvars, hvars,
                   sd_pc, sd_cancel>>

\* the same worker, taking the job put last
worker_get_last(w) ==
    /\ w \in worker_tasks
    /\ wpc[w] = "get"
    /\ queue # << >>
    /\ LET id == queue[Len(queue)] IN
        /\ queue' = SubSeq(queue, 1, Len(queue) - 1)
        /\ wjob' = [wjob EXCEPT ![w] = id]
        /\ wpc' = [wpc EXCEPT ![w] = "exec"]
        /\ tpc' = [tpc EXCEPT ![w] = "download"]
        /\ download_status' =
             IF id \in DOMAIN download_status
             THEN [download_status EXCEPT ![id].status = "downloading"]
             ELSE download_status
    /\ UNCHANGED <<temp_filenames, jobs, worker_tasks, tret, requeue_tasks,
                   phase, next_id, max_workers, avars, rvars, nvars, hvars,
                   sd_pc, sd_cancel>>

\* the same worker, the job left in the queue
worker_get_peek(w) ==
    /\ w \in worker_tasks
    /\ wpc[w] = "get"
    /\ queue # << >>
    /\ LET id == Head(queue) IN
        /\ wjob' = [wjob EXCEPT ![w] = id]
        /\ wpc' = [wpc EXCEPT ![w] = "exec"]
        /\ tpc' = [tpc EXCEPT ![w] = "download"]
        /\ download_status' =
             IF id \in DOMAIN download_status
             THEN [download_status EXCEPT ![id].status = "downloading"]
             ELSE download_status
    /\ UNCHANGED <<temp_filenames, jobs, queue, worker_tasks, tret,
                   requeue_tasks, phase, next_id, max_workers, avars, rvars,
                   nvars, hvars, sd_pc, sd_cancel>>

worker_get(w) ==
    /\ w \in worker_tasks
    /\ wpc[w] = "get"
    /\ queue # << >>
    /\ LET id == Head(queue) IN
        /\ queue' = Tail(queue)
        /\ wjob' = [wjob EXCEPT ![w] = id]
        /\ wpc' = [wpc EXCEPT ![w] = "exec"]
        /\ tpc' = [tpc EXCEPT ![w] = "download"]
        /\ download_status' =
             IF id \in DOMAIN download_status
             THEN [download_status EXCEPT ![id].status = "downloading"]
             ELSE download_status
    /\ UNCHANGED <<temp_filenames, jobs, worker_tasks, tret, requeue_tasks,
                   phase, next_id, max_workers, avars, rvars, nvars, hvars,
                   sd_pc, sd_cancel>>

\* The dict yt_dlp passes to a progress hook: d["status"] and the optional
\* keys the hook reads with d.get (None: the key is missing)
HookEvent(status, percent_str, filename, total_bytes) ==
    [status |-> status, percent_str |-> percent_str, filename |-> filename,
     total_bytes |-> total_bytes]

\* d.get(key, default)
GetOr(v, default) == IF v = None THEN default ELSE v

\* _format_bytes (lines 15-21) of the one size the events carry
_format_bytes(num_bytes) == "1.0 KB"

\* line 223: the status a "finished" event sets
finished_status_completed == "completed"
finished_status           == "processing"

\* lines 205-207: only update filename if no custom filename was set
hook_filename_always(custom_filename, d, old) == d.filename
hook_filename(custom_filename, d, old) ==
    IF ~Truthy(custom_filename) THEN d.filename ELSE old

\* progress_hook (lines 195-230), called by yt_dlp in the pool thread during
\* ydl.download; nothing in the hook orders its calls
progress_hook(w, d) ==
    /\ tpc[w] = "download"
    /\ LET id == wjob[w]
           st == download_status[id]
       IN
        /\ id \in DOMAIN download_status
        /\ \/ /\ d.status = "downloading"
              /\ download_status' = [download_status EXCEPT ![id] =
                    [st EXCEPT !.status = "downloading",
                               !.percent = GetOr(d.percent_str, "0%"),
                               !.filename =
                                   hook_filename(jobs[id].custom_filename, d, @),
                               !.total_bytes = IF d.total_bytes # None
                                               THEN _format_bytes(d.total_bytes)
                                               ELSE @]]
              /\ UNCHANGED temp_filenames
           \/ /\ d.status = "finished"
              /\ download_status' = [download_status EXCEPT ![id] =
                    [st EXCEPT !.status = finished_status,
                               !.total_bytes = IF d.total_bytes # None
                                               THEN _format_bytes(d.total_bytes)
                                               ELSE @]]
              /\ temp_filenames' = [temp_filenames EXCEPT ![id] = d.filename]
           \/ /\ d.status \notin {"downloading", "finished"}
              /\ UNCHANGED <<download_status, temp_filenames>>
    /\ UNCHANGED <<jobs, queue, worker_tasks, wpc, wjob, tpc, tret,
                   requeue_tasks, phase, next_id, max_workers, avars, rvars, nvars, hvars,
                   sd_pc, sd_cancel>>

\* _run_yt_dlp returns ret (0: None) to the executor future the worker
\* awaits (lines 158-166); if that worker was cancelled nothing reads the
\* value and nothing refers to the job any more
thread_return(w, ret) ==
    IF wpc[w] = "exec"
    THEN /\ tpc' = [tpc EXCEPT ![w] = "done"]
         /\ tret' = [tret EXCEPT ![w] = ret]
         /\ UNCHANGED <<wjob, jobs>>
    ELSE /\ tpc' = [tpc EXCEPT ![w] = "idle"]
         /\ tret' = [tret EXCEPT ![w] = 0]
         /\ wjob' = [wjob EXCEPT ![w] = 0]
         /\ jobs' = Drop(jobs, {wjob[w]})

\* _run_yt_dlp, lines 251-265: ydl.download returned; renamed tells whether
\* _rename_downloaded_file gave a new path
download_ok(w, renamed) ==
    /\ tpc[w] = "download"
    /\ LET id == wjob[w]
           custom == jobs[id].custom_filename
           downloaded_file == IF Truthy(custom) THEN temp_filenames[id] ELSE None
           popped == Truthy(downloaded_file)
       IN
        /\ temp_filenames' =
             IF Truthy(custom)
             THEN [temp_filenames EXCEPT ![id] = None]
             ELSE temp_filenames
        /\ download_status' =
             IF id \in DOMAIN download_status
             THEN [download_status EXCEPT ![id] =
                    [@ EXCEPT !.filename = IF popped /\ renamed
                                           THEN "renamed" ELSE @,
                              !.status = "completed",
                              !.percent = "100%",
                              !.error = None]]
             ELSE download_status
    /\ thread_return(w, 0)
    /\ UNCHANGED <<queue, worker_tasks, wpc, requeue_tasks, phase, next_id,
                   max_workers, avars, rvars, nvars, hvars,
                   sd_pc, sd_cancel>>

\* The same lines statement by statement. _run_yt_dlp runs in a pool
\* thread while the event loop serves get_download and get_all_downloads
\* (lines 344-350) from the same dicts, so a reader can run between any two
\* of the three assignments of lines 262-264.
\* lines 251-262: the rename and download_status[id]["status"] = "completed"
set_completed(w, renamed) ==
    /\ tpc[w] = "download"
    /\ LET id == wjob[w]
           custom == jobs[id].custom_filename
           downloaded_file == IF Truthy(custom) THEN temp_filenames[id] ELSE None
           popped == Truthy(downloaded_file)
       IN
        /\ temp_filenames' =
             IF Truthy(custom)
             THEN [temp_filenames EXCEPT ![id] = None]
             ELSE temp_filenames
        /\ download_status' =
             IF id \in DOMAIN download_status
             THEN [download_status EXCEPT ![id] =
                    [@ EXCEPT !.filename = IF popped /\ renamed
                                           THEN "renamed" ELSE @,
                              !.status = "completed"]]
             ELSE download_status
    /\ tpc' = [tpc EXCEPT ![w] = "line 263"]
    /\ UNCHANGED <<jobs, queue, worker_tasks, wpc, wjob, tret, requeue_tasks,
                   phase, next_id, max_workers, avars, rvars, nvars, hvars,
                   sd_pc, sd_cancel>>

\* line 263: download_status[id]["percent"] = "100%"
set_percent(w) ==
    /\ tpc[w] = "line 263"
    /\ download_status' =
         IF wjob[w] \in DOMAIN download_status
         THEN [download_status EXCEPT ![wjob[w]].percent = "100%"]
         ELSE download_status
    /\ tpc' = [tpc EXCEPT ![w] = "line 264"]
    /\ UNCHANGED <<temp_filenames, jobs, queue, worker_tasks, wpc, wjob,
                   tret, requeue_tasks, phase, next_id, max_workers, avars,
                   rvars, nvars, hvars, sd_pc, sd_cancel>>

\* lines 264-265: download_status[id]["error"] = None; return None
set_error_none(w) ==
    /\ tpc[w] = "line 264"
    /\ download_status' =
         IF wjob[w] \in DOMAIN download_status
         THEN [download_status EXCEPT ![wjob[w]].error = None]
         ELSE download_status
    /\ thread_return(w, 0)
    /\ UNCHANGED <<temp_filenames, queue, worker_tasks, wpc, requeue_tasks,
                   phase, next_id, max_workers, avars, rvars, nvars, hvars,
                   sd_pc, sd_cancel>>

\* _run_yt_dlp, lines 267-299: ydl.download raised an error of kind e
download_raise(w, e) ==
    /\ tpc[w] = "download"
    /\ LET id == wjob[w]
           attempt == jobs[id].attempt
       IN
        IF will_retry(e, attempt)
        THEN /\ download_status' =
                  IF id \in DOMAIN download_status
                  THEN [download_status EXCEPT ![id] =
                         [@ EXCEPT !.status = "retrying",
                                   !.error = retry_message(e, attempt)]]
                  ELSE download_status
             /\ thread_return(w, retry_delay_of(attempt))
        ELSE /\ download_status' =
                  IF id \in DOMAIN download_status
                  THEN [download_status EXCEPT ![id] =
                         [@ EXCEPT !.status = "error", !.error = e]]
                  ELSE download_status
             /\ thread_return(w, 0)
    /\ UNCHANGED <<temp_filenames, queue, worker_tasks, wpc, requeue_tasks,
                   phase, next_id, max_workers, avars, rvars, nvars, hvars,
                   sd_pc, sd_cancel>>

\* _worker, lines 170-171: the task that will put the job back, tracked
requeue_tasks_add_lost(tasks, job, delay) == tasks
requeue_tasks_add(tasks, job, delay) ==
    tasks \cup {[job |-> job, delay |-> delay]}

\* mutation: the worker sleeps through the delay itself, holding the job
worker_resume_sleeps(w) ==
    /\ w \in worker_tasks
    /\ wpc[w] = "exec"
    /\ tpc[w] = "done"
    /\ requeue_tasks' =
         IF tret[w] # 0
         THEN requeue_tasks_add(requeue_tasks, wjob[w], tret[w])
         ELSE requeue_tasks
    /\ wpc' = [wpc EXCEPT ![w] = IF tret[w] # 0 THEN "sleep" ELSE "get"]
    /\ wjob' = [wjob EXCEPT ![w] = 0]
    /\ tpc' = [tpc EXCEPT ![w] = "idle"]
    /\ tret' = [tret EXCEPT ![w] = 0]
    /\ jobs' = IF tret[w] # 0 THEN jobs ELSE Drop(jobs, {wjob[w]})
    /\ UNCHANGED <<download_status, temp_filenames, queue, worker_tasks,
                   phase, next_id, max_workers, avars, rvars, nvars, hvars,
                   sd_pc, sd_cancel>>

\* _worker, lines 168-177: the executor future resolved; schedule the
\* re-queue if a delay came back, then wait for the next job
worker_resume(w) ==
    /\ w \in worker_tasks
    /\ wpc[w] = "exec"
    /\ tpc[w] = "done"
    /\ requeue_tasks' =
         IF tret[w] # 0
         THEN requeue_tasks_add(requeue_tasks, wjob[w], tret[w])
         ELSE requeue_tasks
    /\ wpc' = [wpc EXCEPT ![w] = "get"]
    /\ wjob' = [wjob EXCEPT ![w] = 0]
    /\ tpc' = [tpc EXCEPT ![w] = "idle"]
    /\ tret' = [tret EXCEPT ![w] = 0]
    /\ jobs' = IF tret[w] # 0 THEN jobs ELSE Drop(jobs, {wjob[w]})
    /\ UNCHANGED <<download_status, temp_filenames, queue, worker_tasks,
                   phase, next_id, max_workers, avars, rvars, nvars, hvars,
                   sd_pc, sd_cancel>>

\* mutation: the retry submits the job anew, its record replaced
_requeue_job_resubmits(t) ==
    /\ t \in requeue_tasks \ sd_cancel
    /\ jobs' = [jobs EXCEPT ![t.job].attempt = requeue_attempt(@)]
    /\ download_status' =
         status_after_add(download_status, t.job, jobs[t.job].custom_filename)
    /\ queue' = Append(queue, t.job)
    /\ requeue_tasks' = requeue_tasks \ {t}
    /\ UNCHANGED <<temp_filenames, worker_tasks, wpc, wjob, tpc, tret, phase,
                   next_id, max_workers, avars, rvars, nvars, hvars, sd_pc,
                   sd_cancel>>

\* _requeue_job (lines 179-183) once its sleep has elapsed; the done
\* callback of line 172 discards the task
_requeue_job(t) ==
    /\ t \in requeue_tasks \ sd_cancel
    /\ jobs' = [jobs EXCEPT ![t.job].attempt = requeue_attempt(@)]
    /\ queue' = Append(queue, t.job)
    /\ requeue_tasks' = requeue_tasks \ {t}
    /\ UNCHANGED <<download_status, temp_filenames, worker_tasks, wpc, wjob,
                   tpc, tret, phase, next_id, max_workers, avars, rvars, nvars, hvars,
                   sd_pc, sd_cancel>>

\* shutdown (lines 124-138): cancel every worker task and every pending
\* re-queue task, and shut the executor down without waiting. A worker
\* waiting in queue.get() or for its executor call ends; a running
\* _run_yt_dlp call cannot be cancelled and goes on in its pool thread, its
\* return value dropped. A re-queue task that fires while shutdown waits for
\* the workers leaves the state one that firing just before shutdown leaves.
shutdown ==
    /\ phase \in {"started", "stopped"}
    /\ phase' = "stopped"
    /\ worker_tasks' = {}
    /\ wpc' = [w \in Workers |-> IF w \in worker_tasks THEN "cancelled" ELSE wpc[w]]
    /\ requeue_tasks' = {}
    /\ LET unread == {w \in Workers : tpc[w] = "done"} IN
        /\ tpc' = [w \in Workers |-> IF w \in unread THEN "idle" ELSE tpc[w]]
        /\ tret' = [w \in Workers |-> IF w \in unread THEN 0 ELSE tret[w]]
        /\ wjob' = [w \in Workers |-> IF w \in unread THEN 0 ELSE wjob[w]]
        /\ jobs' = Drop(jobs, {wjob[w] : w \in unread}
                              \cup {t.job : t \in requeue_tasks})
    /\ UNCHANGED <<download_status, temp_filenames, queue, next_id, max_workers, avars, rvars, nvars, hvars,
                   sd_pc, sd_cancel>>

\* shutdown step by step, for the specification that follows its waits.
\* Lines 126-129: request the cancellation of every worker task and wait
\* for them in gather.
shutdown_cancel_workers ==
    /\ sd_pc = "idle"
    /\ phase \in {"started", "stopped"}
    /\ sd_pc' = "wait_workers"
    /\ wpc' = [w \in Workers |-> IF w \in worker_tasks /\ wpc[w] # "cancelled"
                                 THEN "cancelling" ELSE wpc[w]]
    /\ UNCHANGED <<download_status, temp_filenames, jobs, queue, worker_tasks,
                   wjob, tpc, tret, requeue_tasks, phase, next_id,
                   max_workers, sd_cancel, avars, rvars, nvars, hvars>>

\* a worker wakes, the worker not ending
worker_cancelled_swallowed(w) ==
    /\ wpc[w] = "cancelling"
    /\ UNCHANGED vars

\* _worker: CancelledError is raised at the await the worker is suspended
\* at (queue.get, line 143, or run_in_executor, line 158) and, nothing
\* catching it, ends the task; the pool thread of a running call goes on
worker_cancelled(w) ==
    /\ wpc[w] = "cancelling"
    /\ wpc' = [wpc EXCEPT ![w] = "cancelled"]
    /\ IF tpc[w] = "done"
       THEN /\ tpc' = [tpc EXCEPT ![w] = "idle"]
            /\ tret' = [tret EXCEPT ![w] = 0]
            /\ wjob' = [wjob EXCEPT ![w] = 0]
            /\ jobs' = Drop(jobs, {wjob[w]})
       ELSE UNCHANGED <<tpc, tret, wjob, jobs>>
    /\ UNCHANGED <<download_status, temp_filenames, queue, worker_tasks,
                   requeue_tasks, phase, next_id, max_workers, sd_pc,
                   sd_cancel, avars, rvars, nvars, hvars>>

\* lines 129-138: gather returned; clear the worker list, request the
\* cancellation of the pending re-queue tasks and wait for them, or, with
\* none pending, shut the executor down and return
shutdown_cancel_requeue ==
    /\ sd_pc = "wait_workers"
    /\ \A w \in worker_tasks : wpc[w] = "cancelled"
    /\ worker_tasks' = {}
    /\ IF requeue_tasks # {}
       THEN /\ sd_cancel' = requeue_tasks
            /\ sd_pc' = "wait_requeue"
            /\ UNCHANGED phase
       ELSE /\ sd_cancel' = {}
            /\ sd_pc' = "idle"
            /\ phase' = "stopped"
    /\ UNCHANGED <<download_status, temp_filenames, jobs, queue, wpc, wjob,
                   tpc, tret, requeue_tasks, next_id, max_workers, avars,
                   rvars, nvars, hvars>>

\* _requeue_job: CancelledError is raised at asyncio.sleep (line 181) and
\* ends the task; its done callback (line 172) discards it
requeue_cancelled(t) ==
    /\ t \in sd_cancel
    /\ sd_cancel' = sd_cancel \ {t}
    /\ requeue_tasks' = requeue_tasks \ {t}
    /\ jobs' = Drop(jobs, {t.job})
    /\ UNCHANGED <<download_status, temp_filenames, queue, worker_tasks, wpc,
                   wjob, tpc, tret, phase, next_id, max_workers, sd_pc,
                   avars, rvars, nvars, hvars>>

\* lines 136-138: the second gather returned
shutdown_return ==
    /\ sd_pc = "wait_requeue"
    /\ sd_cancel = {}
    /\ requeue_tasks' = {}
    /\ sd_pc' = "idle"
    /\ phase' = "stopped"
    /\ UNCHANGED <<download_status, temp_filenames, jobs, queue, worker_tasks,
                   wpc, wjob, tpc, tret, next_id, max_workers, sd_cancel,
                   avars, rvars, nvars, hvars>>

----------------------------------------------------------------------------
(* The components at rest, for the specifications that do not run them *)

MIdle ==
    /\ download_status = << >>
    /\ temp_filenames = [id \in JobIds |-> None]
    /\ jobs = << >>
    /\ queue = << >>
    /\ worker_tasks = {}
    /\ wpc = [w \in Workers |-> "none"]
    /\ wjob = [w \in Workers |-> 0]
    /\ tpc = [w \in Workers |-> "idle"]
    /\ tret = [w \in Workers |-> 0]
    /\ requeue_tasks = {}
    /\ phase = "created"
    /\ next_id = 1
    /\ sd_pc = "idle"
    /\ sd_cancel = {}
    /\ max_workers = max_concurrent_downloads

AIdle ==
    /\ agg_pc = "idle"
    /\ agg_kind = None
    /\ agg_provider_name = 0
    /\ call = << >>
    /\ call_ret = << >>
    /\ task_ret = << >>
    /\ agg_results = << >>

RIdle ==
    /\ rk_pc = "idle"
    /\ rk_results = << >>
    /\ rk_pref = None
    /\ rk_limit = <<"2", "1", "6", "0", "p">>
    /\ rk_best = 0

NIdle ==
    /\ rn_pc = "idle"
    /\ rn_downloaded_file = << >>
    /\ rn_custom_filename = << >>
    /\ rn_files = {}
    /\ rn_ret = << >>

\* no route handler called yet
NoAnswer == [kind |-> "none", id |-> 0]

HIdle ==
    /\ h_pc = "idle"
    /\ h_ret = NoAnswer

----------------------------------------------------------------------------
(* DownloadManager: specifications *)

\* The inputs explored: the events carry no optional key
BareEvents == {HookEvent(s, None, None, None) :
                 s \in {"downloading", "finished", "error"}}
HookEvents  == BareEvents
CustomNames == {None}

MNext ==
    \/ start_workers
    \/ \E c \in CustomNames : add_download(c)
    \/ \E w \in Workers : worker_get(w)
    \/ \E w \in Workers, d \in HookEvents : progress_hook(w, d)
    \/ \E w \in Workers, r \in BOOLEAN : download_ok(w, r)
    \/ \E w \in Workers, e \in ErrorKinds : download_raise(w, e)
    \/ \E w \in Workers : worker_resume(w)
    \/ \E t \in requeue_tasks : _requeue_job(t)
    \/ shutdown

Init == MInit /\ AIdle /\ RIdle /\ NIdle /\ HIdle

Next == MNext

Spec == Init /\ [][Next]_vars

\* The manager with its workers started and shutdown never called, every
\* transfer returning: asyncio runs every ready task, the timers of
\* asyncio.sleep fire, and ydl.download returns or raises
\* the transfer errors explored there: the rate limit and a fatal error
LiveErrorKinds == {"429", "fatal"}

MLiveNext ==
    \/ start_workers
    \/ \E c \in CustomNames : add_download(c)
    \/ \E w \in Workers : worker_get(w)
    \/ \E w \in Workers, d \in HookEvents : progress_hook(w, d)
    \/ \E w \in Workers, r \in BOOLEAN : download_ok(w, r)
    \/ \E w \in Workers, e \in LiveErrorKinds : download_raise(w, e)
    \/ \E w \in Workers : worker_resume(w)
    \/ \E t \in requeue_tasks : _requeue_job(t)

TransferEnds(w) ==
    \/ \E r \in BOOLEAN : download_ok(w, r)
    \/ \E e \in LiveErrorKinds : download_raise(w, e)

TimerFires(id) == \E t \in requeue_tasks : t.job = id /\ _requeue_job(t)

LiveSpec ==
    /\ Init
    /\ [][MLiveNext]_vars
    /\ WF_vars(start_workers)
    /\ \A w \in Workers : WF_vars(worker_get(w))
    /\ \A w \in Workers : WF_vars(TransferEnds(w))
    /\ \A w \in Workers : WF_vars(worker_resume(w))
    /\ \A id \in JobIds : WF_vars(TimerFires(id))

\* the manager of the application (line 354)
AppInit == Init /\ max_workers = max_concurrent_downloads

\* The application's manager under the same fairness, with shutdown called
\* at any time
StopSpec ==
    /\ AppInit
    /\ [][MLiveNext \/ shutdown]_vars
    /\ WF_vars(start_workers)
    /\ \A w \in Workers : WF_vars(worker_get(w))
    /\ \A w \in Workers : WF_vars(TransferEnds(w))
    /\ \A w \in Workers : WF_vars(worker_resume(w))
    /\ \A id \in JobIds : WF_vars(TimerFires(id))

\* The application's manager with custom filenames requested and events
\* that carry the optional keys: "Movie.mkv" asked for, yt_dlp writing
\* downloads/video.mp4; a transfer ends or fails for good
NameEvents ==
    {HookEvent("downloading", "50%", "downloads/video.mp4.part", "1024"),
     HookEvent("downloading", None, None, None),
     HookEvent("finished", None, "downloads/video.mp4", "1024")}
NameCustomNames == {None, "Movie.mkv"}

NameNext ==
    \/ start_workers
    \/ \E c \in NameCustomNames : add_download(c)
    \/ \E w \in Workers : worker_get(w)
    \/ \E w \in Workers, d \in NameEvents : progress_hook(w, d)
    \/ \E w \in Workers, r \in BOOLEAN : download_ok(w, r)
    \/ \E w \in Workers : download_raise(w, "fatal")
    \/ \E w \in Workers : worker_resume(w)

NameSpec == AppInit /\ [][NameNext]_vars

\* The application's manager with the completion of a transfer followed
\* statement by statement, transfers ending or hitting the rate limit
WriteNext ==
    \/ start_workers
    \/ \E c \in CustomNames : add_download(c)
    \/ \E w \in Workers : worker_get(w)
    \/ \E w \in Workers, d \in HookEvents : progress_hook(w, d)
    \/ \E w \in Workers, r \in BOOLEAN : set_completed(w, r)
    \/ \E w \in Workers : set_percent(w)
    \/ \E w \in Workers : set_error_none(w)
    \/ \E w \in Workers : download_raise(w, "429")
    \/ \E w \in Workers : worker_resume(w)
    \/ \E t \in requeue_tasks : _requeue_job(t)

WriteSpec == AppInit /\ [][WriteNext]_vars

\* The manager with shutdown followed through its waits; the event loop
\* runs every task that is ready, so a cancelled task gets its step
ShutdownWakes ==
    \/ \E w \in Workers : worker_cancelled(w)
    \/ shutdown_cancel_requeue
    \/ \E t \in sd_cancel : requeue_cancelled(t)
    \/ shutdown_return

ShutdownStep == shutdown_cancel_workers \/ ShutdownWakes

ShutSpec ==
    /\ AppInit
    /\ [][MLiveNext \/ ShutdownStep]_vars
    /\ WF_vars(ShutdownWakes)

----------------------------------------------------------------------------
(* The provider fan-out: get_provider_results_for_movie (search.py:16-51)  *)
(* and get_provider_results_for_episode (search.py:54-95), which differ    *)
(* only in the lookup and the provider method they call                    *)

\* ProviderRegistry.all() (providers/__init__.py:23-26): the registered
\* providers in registration order
Providers == 1..MaxProviders

\* What a provider call can return: a list of results, or, from a provider
\* that does not keep its contract, None or a string
ResultOf(p, n) == [kind |-> "result", provider_name |-> p, n |-> n]
CharOf(n)      == [kind |-> "char", provider_name |-> 0, n |-> n]
ListValue(items) == [type |-> "list", items |-> items]
NoneValue == [type |-> "none", items |-> << >>]
StrValue  == [type |-> "str", items |-> <<CharOf(1), CharOf(2)>>]
Pending   == [type |-> "pending", items |-> << >>]

ReturnValues(p) ==
    {ListValue(<< >>), ListValue(<<ResultOf(p, 1)>>),
     ListValue(<<ResultOf(p, 1), ResultOf(p, 2)>>), NoneValue, StrValue}

\* list.extend(v) iterates v: the items of a list, the characters of a
\* string; None is not iterable (TypeError)
Iterable(v) == v.type \in {"list", "str"}

\* lines 47-49 / 91-93: results = []; for result_list in provider_results:
\* results.extend(result_list), up to provider n
RECURSIVE Extended_reversed(_, _)
Extended_reversed(rets, n) ==
    IF n = 0 THEN << >> ELSE rets[n].items \o Extended_reversed(rets, n - 1)

RECURSIVE Extended(_, _)
Extended(rets, n) ==
    IF n = 0 THEN << >> ELSE Extended(rets, n - 1) \o rets[n].items

\* a movie or an episode lookup and fan-out is called (lines 26-28, 66-68)
agg_start(kind) ==
    /\ agg_pc = "idle"
    /\ agg_pc' = "lookup"
    /\ agg_kind' = kind
    /\ agg_provider_name' = 0
    /\ UNCHANGED <<call, call_ret, task_ret, agg_results, mvars, rvars, nvars, hvars>>

\* mutation: the failure of the lookup is caught and the providers are
\* asked all the same
lookup_raises_caught ==
    /\ agg_pc = "lookup"
    /\ agg_pc' = "gather"
    /\ call' = [p \in Providers |-> "running"]
    /\ call_ret' = [p \in Providers |-> Pending]
    /\ task_ret' = [p \in Providers |-> Pending]
    /\ UNCHANGED <<agg_kind, agg_provider_name, agg_results, mvars, rvars, nvars, hvars>>

\* get_movie_details / get_series_details raised (services/tmdb.py raises
\* TMDBError): nothing in either kind of function catches it
lookup_raises ==
    /\ agg_pc = "lookup"
    /\ agg_pc' = "raised"
    /\ UNCHANGED <<agg_kind, agg_provider_name, call, call_ret, task_ret, agg_results, mvars, rvars, nvars, hvars>>

\* the lookup returned; lines 29, 43-45 (69, 87-89): gather starts one
\* fetch_from_provider per registered provider, each awaiting its provider
\* call under asyncio.wait_for
lookup_returns ==
    /\ agg_pc = "lookup"
    /\ agg_provider_name = 0
    /\ agg_pc' = "gather"
    /\ call' = [p \in Providers |-> "running"]
    /\ call_ret' = [p \in Providers |-> Pending]
    /\ task_ret' = [p \in Providers |-> Pending]
    /\ UNCHANGED <<agg_kind, agg_provider_name, agg_results, mvars, rvars, nvars, hvars>>

\* line 33 (73-75): the provider call returned v in time; fetch_from_provider
\* returns it as it is
provider_returns(p, v) ==
    /\ agg_pc = "gather"
    /\ call[p] = "running"
    /\ call' = [call EXCEPT ![p] = "returned"]
    /\ call_ret' = [call_ret EXCEPT ![p] = v]
    /\ task_ret' = [task_ret EXCEPT ![p] = v]
    /\ UNCHANGED <<agg_pc, agg_kind, agg_provider_name, agg_results, mvars, rvars, nvars, hvars>>

\* mutation: no except clause around the provider call; gather hands the
\* first exception to its caller
provider_raises_uncaught(p) ==
    /\ agg_pc = "gather"
    /\ call[p] = "running"
    /\ call' = [call EXCEPT ![p] = "raised"]
    /\ agg_pc' = "raised"
    /\ UNCHANGED <<agg_kind, agg_provider_name, call_ret, task_ret, agg_results, mvars, rvars, nvars, hvars>>

\* lines 39-41 (81-85): the provider call raised an Exception
provider_raises(p) ==
    /\ agg_pc = "gather"
    /\ call[p] = "running"
    /\ call' = [call EXCEPT ![p] = "raised"]
    /\ task_ret' = [task_ret EXCEPT ![p] = ListValue(<< >>)]
    /\ UNCHANGED <<agg_pc, agg_kind, agg_provider_name, call_ret, agg_results, mvars, rvars, nvars, hvars>>

\* mutation: no timeout around the provider call
provider_times_out_never(p) ==
    /\ agg_pc = "gather"
    /\ call[p] = "running"
    /\ UNCHANGED vars

\* lines 34-38 (76-80): provider_timeout elapsed; wait_for cancels the call
\* it wraps and raises TimeoutError. The providers of app/providers await
\* their HTTP client and catch Exception only, so the CancelledError ends
\* the call at once
provider_times_out(p) ==
    /\ agg_pc = "gather"
    /\ call[p] = "running"
    /\ call' = [call EXCEPT ![p] = "cancelled"]
    /\ task_ret' = [task_ret EXCEPT ![p] = ListValue(<< >>)]
    /\ UNCHANGED <<agg_pc, agg_kind, agg_provider_name, call_ret, agg_results, mvars, rvars, nvars, hvars>>

\* lines 43-51 (87-95): every fetch_from_provider has returned; gather gives
\* their values in the order of the providers and the loop merges them
gather_done_any == \E p \in Providers : task_ret[p] # Pending
gather_done     == \A p \in Providers : task_ret[p] # Pending

gather_returns ==
    /\ agg_pc = "gather"
    /\ gather_done
    /\ IF \A p \in Providers : Iterable(task_ret[p])
       THEN /\ agg_pc' = "returned"
            /\ agg_results' = Extended(task_ret, MaxProviders)
       ELSE /\ agg_pc' = "raised"
            /\ UNCHANGED agg_results
    /\ UNCHANGED <<agg_kind, agg_provider_name, call, call_ret, task_ret, mvars, rvars, nvars, hvars>>

\* get_single_provider_results_for_movie (search.py:98-126) and
\* get_single_provider_results_for_episode (search.py:129-161)

\* ProviderRegistry.get(name) (providers/__init__.py:18-21): the provider
\* registered under that name, 0 for None
ProviderRegistry_get(name) == IF name \in Providers THEN name ELSE 0

\* the names asked for: those registered and one that is not
RequestedNames == Providers \cup {MaxProviders + 1}

\* one of the two is called (lines 107-109, 140-142)
single_start(kind, provider_name) ==
    /\ agg_pc = "idle"
    /\ agg_pc' = "lookup"
    /\ agg_kind' = kind
    /\ agg_provider_name' = provider_name
    /\ UNCHANGED <<call, call_ret, task_ret, agg_results, mvars, rvars, nvars, hvars>>

\* the lookup returned; lines 110-116 (143-150): results = [], and with a
\* provider of that name its call is awaited under asyncio.wait_for; with
\* none (`if provider:` fails) line 126 (161) returns the empty list
single_lookup_returns ==
    /\ agg_pc = "lookup"
    /\ agg_provider_name # 0
    /\ LET provider == ProviderRegistry_get(agg_provider_name) IN
        IF provider # 0
        THEN /\ agg_pc' = "wait_for"
             /\ call' = [p \in {provider} |-> "running"]
             /\ call_ret' = [p \in {provider} |-> Pending]
             /\ task_ret' = [p \in {provider} |-> Pending]
             /\ UNCHANGED agg_results
        ELSE /\ agg_pc' = "returned"
             /\ agg_results' = << >>
             /\ UNCHANGED <<call, call_ret, task_ret>>
    /\ UNCHANGED <<agg_kind, agg_provider_name, mvars, rvars, nvars, hvars>>

\* lines 115-118, 126: the provider call returned v in time and
\* results.extend(v) runs inside the try: the TypeError of a v that is not
\* iterable is caught by `except Exception` and leaves results empty
single_provider_returns(p, v) ==
    /\ agg_pc = "wait_for"
    /\ p \in DOMAIN call
    /\ call[p] = "running"
    /\ call' = [call EXCEPT ![p] = "returned"]
    /\ call_ret' = [call_ret EXCEPT ![p] = v]
    /\ agg_pc' = "returned"
    /\ agg_results' = IF Iterable(v) THEN v.items ELSE << >>
    /\ UNCHANGED <<agg_kind, agg_provider_name, task_ret, mvars, rvars, nvars, hvars>>

\* mutation: no except clause around the one provider call
single_provider_raises_uncaught(p) ==
    /\ agg_pc = "wait_for"
    /\ p \in DOMAIN call
    /\ call[p] = "running"
    /\ call' = [call EXCEPT ![p] = "raised"]
    /\ agg_pc' = "raised"
    /\ UNCHANGED <<agg_kind, agg_provider_name, call_ret, task_ret,
                   agg_results, mvars, rvars, nvars, hvars>>

\* lines 123-126: the provider call raised an Exception
single_provider_raises(p) ==
    /\ agg_pc = "wait_for"
    /\ p \in DOMAIN call
    /\ call[p] = "running"
    /\ call' = [call EXCEPT ![p] = "raised"]
    /\ agg_pc' = "returned"
    /\ agg_results' = << >>
    /\ UNCHANGED <<agg_kind, agg_provider_name, call_ret, task_ret, mvars,
                   rvars, nvars, hvars>>

\* lines 119-122, 126: provider_timeout elapsed; wait_for cancels the call
single_provider_times_out(p) ==
    /\ agg_pc = "wait_for"
    /\ p \in DOMAIN call
    /\ call[p] = "running"
    /\ call' = [call EXCEPT ![p] = "cancelled"]
    /\ agg_pc' = "returned"
    /\ agg_results' = << >>
    /\ UNCHANGED <<agg_kind, agg_provider_name, call_ret, task_ret, mvars,
                   rvars, nvars, hvars>>

ANext ==
    \/ \E k \in {"movie", "episode"} : agg_start(k)
    \/ lookup_raises
    \/ lookup_returns
    \/ \E p \in Providers : \E v \in ReturnValues(p) : provider_returns(p, v)
    \/ \E p \in Providers : provider_raises(p)
    \/ \E p \in Providers : provider_times_out(p)
    \/ gather_returns

\* the steps of the functions for one provider name, but for the failing
\* lookup, which is that of ANext
ONext ==
    \/ \E k \in {"movie", "episode"}, n \in RequestedNames : single_start(k, n)
    \/ single_lookup_returns
    \/ \E p \in Providers : \E v \in ReturnValues(p) :
          single_provider_returns(p, v)
    \/ \E p \in Providers : single_provider_raises(p)
    \/ \E p \in Providers : single_provider_times_out(p)

AggInit == MIdle /\ AIdle /\ RIdle /\ NIdle /\ HIdle

AggSpec == AggInit /\ [][ANext]_vars

\* The fan-out with a provider that may never answer: the loop's timer of
\* each asyncio.wait_for fires after provider_timeout (config.py:23), and
\* the event loop resumes gather once every task is done
AggLiveSpec ==
    /\ AggInit
    /\ [][ANext]_vars
    /\ \A p \in Providers : WF_call(provider_times_out(p))
    /\ WF_agg_pc(gather_returns)

\* either kind of call: over all providers or for one provider name
FetchSpec == AggInit /\ [][ANext \/ ONext]_vars

----------------------------------------------------------------------------
(* The result selection: select_best_result (search.py:164-233).  Strings  *)
(* that the code inspects are sequences of characters.                     *)

MaxResults == 2       \* length of the result lists explored

S2160p == <<"2", "1", "6", "0", "p">>
S1080p == <<"1", "0", "8", "0", "p">>
S720p  == <<"7", "2", "0", "p">>
S480p  == <<"4", "8", "0", "p">>
S360p  == <<"3", "6", "0", "p">>
S240p  == <<"2", "4", "0", "p">>
S4K    == <<"4", "K">>

\* config.py:25-27, the values Settings.quality_limit admits
QualityLimits == {S2160p, S1080p, S720p, S480p, S360p, S240p}

\* str.lower over the characters in use
LowerChar(c) ==
    IF c = "K" THEN "k" ELSE IF c = "P" THEN "p"
    ELSE IF c = "H" THEN "h" ELSE IF c = "T" THEN "t" ELSE c
lower(str) == [i \in DOMAIN str |-> LowerChar(str[i])]

\* sub in str
Contains(sub, str) ==
    \E i \in 1..(Len(str) - Len(sub) + 1) :
        SubSeq(str, i, i + Len(sub) - 1) = sub

\* quality_scores.get(label, default), lines 181-189
quality_scores_get(label, default) ==
    IF label = S2160p THEN 4
    ELSE IF label = <<"4", "k">> THEN 4
    ELSE IF label = S1080p THEN 3
    ELSE IF label = S720p THEN 2
    ELSE IF label = S480p THEN 1
    ELSE default

\* line 179; settings.quality_limit is never empty
q_limit == lower(rk_limit)

limit_score == quality_scores_get(q_limit, 4)

\* lines 194-202
res_score(r) ==
    LET quality == IF r.quality # << >> THEN lower(r.quality) ELSE S480p
    IN  IF Contains(<<"2", "1", "6", "0">>, quality)
           \/ Contains(<<"4", "k">>, quality) THEN 4
        ELSE IF Contains(<<"1", "0", "8", "0">>, quality) THEN 3
        ELSE IF Contains(<<"7", "2", "0">>, quality) THEN 2
        ELSE 1

\* lines 192-205, as the positions kept, in order
filtered_results ==
    {i \in DOMAIN rk_results : res_score(rk_results[i]) <= limit_score}

\* lines 217-226
q_score(result) ==
    LET quality == IF result.quality # << >> THEN lower(result.quality)
                   ELSE S480p
    IN  IF Contains(<<"2", "1", "6", "0">>, quality)
           \/ Contains(<<"4", "k">>, quality) THEN 4
        ELSE IF Contains(<<"1", "0", "8", "0">>, quality) THEN 3
        ELSE IF Contains(<<"7", "2", "0">>, quality) THEN 2
        ELSE 1

\* line 215
is_pref(result) ==
    IF Truthy(rk_pref) /\ result.provider_name = rk_pref THEN 1 ELSE 0

\* select_best_result.score, lines 210-230
score_quality_first(result) ==
    <<q_score(result), is_pref(result), -result.size>>

score_larger_size(result) ==
    <<is_pref(result), q_score(result), result.size>>

score(result) == <<is_pref(result), q_score(result), -result.size>>

\* the order of Python tuples of three numbers
TupleLess(a, b) ==
    \/ a[1] < b[1]
    \/ a[1] = b[1] /\ a[2] < b[2]
    \/ a[1] = b[1] /\ a[2] = b[2] /\ a[3] < b[3]

\* max(filtered_results, key=score): the first element of the largest key
max_by_score(kept) ==
    CHOOSE i \in kept :
        /\ \A j \in kept : ~TupleLess(score(rk_results[i]), score(rk_results[j]))
        /\ \A j \in kept :
              score(rk_results[j]) = score(rk_results[i]) => i <= j

select_best_result ==
    /\ rk_pc = "call"
    /\ rk_pc' = "done"
    /\ rk_best' = IF rk_results = << >> THEN 0
                  ELSE IF filtered_results = {} THEN 0
                  ELSE max_by_score(filtered_results)
    /\ UNCHANGED <<rk_results, rk_pref, rk_limit, mvars, avars, nvars, hvars>>

\* The arguments and settings explored
Qualities == {S2160p, S4K, S1080p, S720p, S480p, S360p, << >>}
Sizes == {100, 200}
ProviderNames == {"P1", "P2"}
PreferredProviders == {None, "P2", "p2"}
Results == [quality : Qualities, size : Sizes, provider_name : ProviderNames]
ResultLists == UNION {[1..n -> Results] : n \in 0..MaxResults}

RankInit ==
    /\ MIdle
    /\ AIdle
    /\ NIdle
    /\ HIdle
    /\ rk_pc = "call"
    /\ rk_results \in ResultLists
    /\ rk_pref \in PreferredProviders
    /\ rk_limit \in QualityLimits
    /\ rk_best = 0

RankNext == select_best_result

RankSpec == RankInit /\ [][RankNext]_vars

\* The same call over longer lists of fewer results, so that two results
\* of one key come with a third of another
TieLen == 3
TieQualities == {S4K, S1080p, S480p}
TieResults == [quality : TieQualities, size : Sizes, provider_name : ProviderNames]
TieLists == UNION {[1..n -> TieResults] : n \in 0..TieLen}

TieInit ==
    /\ MIdle
    /\ AIdle
    /\ NIdle
    /\ HIdle
    /\ rk_pc = "call"
    /\ rk_results \in TieLists
    /\ rk_pref \in PreferredProviders
    /\ rk_limit \in QualityLimits
    /\ rk_best = 0

TieSpec == TieInit /\ [][RankNext]_vars

----------------------------------------------------------------------------
(* The final rename: _rename_downloaded_file (download_manager.py:30-57).  *)
(* Paths and names are sequences of characters; the files on disk are      *)
(* kept by their resolved location.                                        *)

MaxNameLen == 3       \* length of the enumerated custom filenames

\* the characters \w matches among those in use
WordChars == {"a", "b", "c", "d", "e", "f", "i", "l", "m", "n", "o", "p",
              "r", "s", "t", "v", "w", "4", "_"}

\* str.rfind("/") + 1: the position of the last separator, 0 without one
LastSep(p) ==
    LET S == {i \in DOMAIN p : p[i] = "/"}
    IN  IF S = {} THEN 0 ELSE CHOOSE i \in S : \A j \in S : j <= i

\* posixpath.basename (line 39)
basename(p) == SubSeq(p, LastSep(p) + 1, Len(p))

\* str.rstrip("/")
rstrip(p) ==
    LET K == {i \in DOMAIN p : p[i] # "/"}
    IN  IF K = {} THEN << >>
        ELSE SubSeq(p, 1, CHOOSE i \in K : \A j \in K : j <= i)

\* posixpath.dirname (line 46): the head up to the last separator, its
\* trailing separators stripped unless it consists of separators
dirname(p) ==
    LET head == SubSeq(p, 1, LastSep(p))
    IN  IF \E i \in DOMAIN head : head[i] # "/" THEN rstrip(head) ELSE head

\* posixpath.join of two parts (line 49, and shutil.move)
join(a, b) ==
    IF b # << >> /\ b[1] = "/" THEN b
    ELSE IF a = << >> \/ a[Len(a)] = "/" THEN a \o b
    ELSE a \o <<"/">> \o b

\* re.sub(r"[^\w\.-]", "_", custom_filename), line 41
re_sub(str) ==
    [i \in DOMAIN str |->
        IF str[i] \in WordChars \cup {".", "-"} THEN str[i] ELSE "_"]

\* The names on a path, in order
RECURSIVE Split(_)
Split(p) ==
    IF p = << >> THEN << >>
    ELSE LET S == {i \in DOMAIN p : p[i] = "/"}
         IN  IF S = {} THEN <<p>>
             ELSE LET i == CHOOSE k \in S : \A j \in S : k <= j
                      head == SubSeq(p, 1, i - 1)
                      rest == Split(SubSeq(p, i + 1, Len(p)))
                  IN  IF head = << >> THEN rest ELSE <<head>> \o rest

\* what the kernel does with the names of a path, one after the other
\* (there are no symbolic links)
RECURSIVE Walk(_, _)
Walk(at, names) ==
    IF names = << >> THEN at
    ELSE LET n == Head(names)
             to == IF n = <<".">> THEN at
                   ELSE IF n = <<".", ".">>
                        THEN SubSeq(at, 1, Len(at) - 1)
                        ELSE Append(at, n)
         IN  Walk(to, Tail(names))

SApp       == <<"a", "p", "p">>
SDownloads == <<"d", "o", "w", "n", "l", "o", "a", "d", "s">>
SVideoMp4  == <<"v", "i", "d", "e", "o", ".", "m", "p", "4">>

\* the working directory of the process, which a relative path starts at
\* (default_opts["outtmpl"], download_manager.py:107, is relative)
Cwd == <<SApp>>

\* the directories on disk: the root, the working directory and the
\* download directories
Dirs == {<< >>, Cwd, <<SDownloads>>, Cwd \o <<SDownloads>>}

\* the location a path names
Resolve(p) ==
    Walk(IF p # << >> /\ p[1] = "/" THEN << >> ELSE Cwd, Split(p))

\* os.path.isdir, os.path.exists
isdir(p) == Resolve(p) \in Dirs
exists(p) == Resolve(p) \in rn_files \cup Dirs

\* shutil.move(src, dst): a destination that is a directory stands for the
\* entry in it that has the name of src
move_real_dst(src, dst) ==
    IF isdir(dst) THEN join(dst, basename(rstrip(src))) ELSE dst

\* shutil.move raises Error if that entry exists
move_raises(src, dst) == isdir(dst) /\ exists(move_real_dst(src, dst))

\* _rename_downloaded_file (lines 30-57); os_error: os.rename and the copy
\* that shutil.move falls back to raise OSError (permissions, a full disk)
_rename_downloaded_file(os_error) ==
    /\ rn_pc = "call"
    /\ rn_pc' = "done"
    /\ LET custom_filename == re_sub(basename(rn_custom_filename))
           download_dir == dirname(rn_downloaded_file)
           new_path == join(download_dir, custom_filename)
       IN  IF rn_downloaded_file = << >> \/ ~exists(rn_downloaded_file)
           THEN rn_ret' = << >> /\ UNCHANGED rn_files
           ELSE IF custom_filename = << >>
           THEN rn_ret' = << >> /\ UNCHANGED rn_files
           ELSE IF move_raises(rn_downloaded_file, new_path) \/ os_error
           THEN rn_ret' = << >> /\ UNCHANGED rn_files
           ELSE /\ rn_ret' = new_path
                /\ rn_files' =
                     (rn_files \ {Resolve(rn_downloaded_file)})
                     \cup {Resolve(move_real_dst(rn_downloaded_file, new_path))}
    /\ UNCHANGED <<rn_downloaded_file, rn_custom_filename, mvars, avars,
                   rvars, hvars>>

\* The arguments explored: every name of up to MaxNameLen characters over a
\* separator, a dot, a letter and a character outside the safe class, and
\* the two names of tests/test_security_refactor.py
NameChars == {"/", ".", "a", ";"}
ShortNames == UNION {[1..n -> NameChars] : n \in 0..MaxNameLen}

\* "../../etc/passwd"
STraversal ==
    <<".", ".", "/", ".", ".", "/", "e", "t", "c", "/",
      "p", "a", "s", "s", "w", "d">>
\* "foo/bar;rm -rf"
SSpecial ==
    <<"f", "o", "o", "/", "b", "a", "r", ";", "r", "m", " ", "-", "r", "f">>

CustomFilenames == ShortNames \cup {STraversal, SSpecial}

\* "/downloads/video.mp4", "downloads/video.mp4" and a falsy argument
DownloadedFiles ==
    {<<"/">> \o SDownloads \o <<"/">> \o SVideoMp4,
     SDownloads \o <<"/">> \o SVideoMp4,
     << >>}

RenameInit ==
    /\ MIdle
    /\ AIdle
    /\ RIdle
    /\ HIdle
    /\ rn_pc = "call"
    /\ rn_downloaded_file \in DownloadedFiles
    /\ rn_custom_filename \in CustomFilenames
    /\ rn_files \in {{}, {Resolve(rn_downloaded_file)} \ {Cwd}}
    /\ rn_ret = << >>

RenameNext == \E os_error \in BOOLEAN : _rename_downloaded_file(os_error)

RenameSpec == RenameInit /\ [][RenameNext]_vars

----------------------------------------------------------------------------
(* routes_api.py: queue_download (lines 57-68)                             *)

\* urllib.parse.urlsplit, as far as queue_download depends on it. The urls
\* explored hold no tab, carriage return or line feed (which urlsplit
\* removes) and no netloc with both brackets (whose host urlsplit checks).
\* str.isalpha and scheme_chars over the characters in use
AsciiLetters ==
    {"a", "e", "f", "h", "i", "l", "p", "s", "t", "H", "P", "T"}
scheme_chars == AsciiLetters \cup {"1", "+", "-", "."}

\* url.lstrip(_WHATWG_C0_CONTROL_OR_SPACE)
lstrip(url) ==
    LET K == {i \in DOMAIN url : url[i] # " "}
    IN  IF K = {} THEN << >>
        ELSE SubSeq(url, CHOOSE i \in K : \A j \in K : i <= j, Len(url))

\* str.find(c), counted from 1 (0: not found)
find(str, c) ==
    LET S == {i \in DOMAIN str : str[i] = c}
    IN  IF S = {} THEN 0 ELSE CHOOSE i \in S : \A j \in S : i <= j

\* the position of the colon that ends a scheme (0: the url has none)
scheme_end(url) ==
    LET i == find(url, ":")
    IN  IF /\ i > 1
           /\ url[1] \in AsciiLetters
           /\ \A k \in 1..(i - 1) : url[k] \in scheme_chars
        THEN i ELSE 0

\* _splitnetloc(url, 2): from behind the "//" to the next of "/", "?", "#"
netloc_of(rest) ==
    IF Len(rest) >= 2 /\ SubSeq(rest, 1, 2) = <<"/", "/">>
    THEN LET after == SubSeq(rest, 3, Len(rest))
             D == {i \in DOMAIN after : after[i] \in {"/", "?", "#"}}
         IN  IF D = {} THEN after
             ELSE SubSeq(after, 1, (CHOOSE i \in D : \A j \in D : i <= j) - 1)
    ELSE << >>

\* urlsplit(url): the scheme and the netloc, and whether it raises
\* ValueError("Invalid IPv6 URL")
urlsplit(url) ==
    LET u == lstrip(url)
        i == scheme_end(u)
        netloc == netloc_of(SubSeq(u, i + 1, Len(u)))
    IN  [scheme |-> IF i > 0 THEN lower(SubSeq(u, 1, i - 1)) ELSE << >>,
         netloc |-> netloc,
         raises |-> (\E k \in DOMAIN netloc : netloc[k] = "[")
                      # (\E k \in DOMAIN netloc : netloc[k] = "]")]

SHttp  == <<"h", "t", "t", "p">>
SHttps == <<"h", "t", "t", "p", "s">>

\* queue_download: what it answers (the id and "queued", HTTPException(400),
\* or the ValueError of urlparse, which nothing catches) and what it submits
Queued(id) == [kind |-> "queued", id |-> id]
BadRequest == [kind |-> "400", id |-> 0]
ValueError == [kind |-> "ValueError", id |-> 0]

\* line 62: parsed.scheme in ("http", "https")
scheme_allowed(parsed) == parsed.scheme \in {SHttp, SHttps}

queue_download(url, opts) ==
    /\ IF urlsplit(url).raises
       THEN /\ h_ret' = ValueError
            /\ UNCHANGED mvars
       ELSE IF ~scheme_allowed(urlsplit(url))
       THEN /\ h_ret' = BadRequest
            /\ UNCHANGED mvars
       ELSE /\ add_download_call(url, opts, None)
            /\ h_ret' = Queued(next_id)
    /\ UNCHANGED <<h_pc, avars, rvars, nvars>>

\* The urls explored: a scheme or none, in either case, before "://a", "a"
\* and the netloc of an unclosed bracket
UrlSchemes ==
    {SHttp, SHttps, <<"H", "T", "T", "P">>, <<"f", "t", "p">>,
     <<"f", "i", "l", "e">>, <<"1", "h", "t", "t", "p">>, <<" ">> \o SHttp,
     << >>}
UrlRests == {<<":", "/", "/", "a">>, <<"a">>, <<":", "/", "/", "[">>}
Urls == {s \o r : s \in UrlSchemes, r \in UrlRests}
RequestOptions == {NoneOpts, RequestOpts}

ApiNext ==
    \/ start_workers
    \/ \E url \in Urls, opts \in RequestOptions : queue_download(url, opts)
    \/ \E w \in Workers : worker_get(w)
    \/ \E w \in Workers, r \in BOOLEAN : download_ok(w, r)
    \/ \E w \in Workers : download_raise(w, "fatal")
    \/ \E w \in Workers : worker_resume(w)

ApiSpec == AppInit /\ [][ApiNext]_vars

\* The application with two requests, one without options and one with
\* options and another url, submitted through queue_download, their
\* transfers ending or hitting the rate limit, and shutdown called at any
\* time
RetryRequests ==
    { [url |-> SHttp \o <<":", "/", "/", "a">>, opts |-> NoneOpts],
      [url |-> SHttps \o <<":", "/", "/", "a">>, opts |-> RequestOpts] }

RetryNext ==
    \/ start_workers
    \/ \E request \in RetryRequests : queue_download(request.url, request.opts)
    \/ \E w \in Workers : worker_get(w)
    \/ \E w \in Workers : download_ok(w, FALSE)
    \/ \E w \in Workers : download_raise(w, "429")
    \/ \E w \in Workers : worker_resume(w)
    \/ \E t \in requeue_tasks : _requeue_job(t)
    \/ shutdown

RetrySpec == AppInit /\ [][RetryNext]_vars

----------------------------------------------------------------------------
(* routes_ui.py: movie_auto (lines 293-350) and episode_auto (232-290),    *)
(* which differ in the function over all providers they call               *)

\* The attributes of the results the providers return. The first result of a
\* provider is a 720p file without a file name, its second a 1080p file
\* named Movie.mkv; the last provider of the registry leaves provider_name
\* at its default "" (0 here), as the providers do that pass source_site
\* only.
Digit(n) == <<"1", "2", "3", "4", "5">>[n]
download_url_of(r) ==
    SomeUrl \o <<"/", Digit(r.provider_name), "/", Digit(r.n)>>
DownloadResult(r) ==
    [quality       |-> IF r.n = 1 THEN S720p ELSE S1080p,
     size          |-> 100,
     download_url  |-> download_url_of(r),
     provider_name |-> IF r.provider_name = MaxProviders THEN 0
                       ELSE r.provider_name,
     filename      |-> IF r.n = 1 THEN "" ELSE "Movie.mkv"]

\* provider.get_yt_opts() (providers/base.py:102-122 and the overrides)
get_yt_opts_none(provider) == NoOpts
get_yt_opts(provider) == [of |-> "get_yt_opts", provider |-> provider]

\* what the handler answers: the auto_download partial with the id, one of
\* the two toasts, or the exception of a call it does not guard
Toast(message) == [kind |-> message, id |-> 0]
Raised == [kind |-> "raised", id |-> 0]

\* the request arrives: line 302 (243) calls the function over all
\* providers, which starts with its lookup
auto_start(kind) ==
    /\ h_pc = "idle"
    /\ agg_pc = "idle"
    /\ h_pc' = "aggregate"
    /\ agg_pc' = "lookup"
    /\ agg_kind' = kind
    /\ agg_provider_name' = 0
    /\ UNCHANGED <<h_ret, call, call_ret, task_ret, agg_results, mvars, rvars,
                   nvars>>

\* the function over all providers raised (the lookup failed, or a provider
\* returned None): the handler has no try
auto_raised ==
    /\ h_pc = "aggregate"
    /\ agg_pc = "raised"
    /\ h_pc' = "done"
    /\ h_ret' = Raised
    /\ UNCHANGED <<avars, mvars, rvars, nvars>>

\* line 303 (244): select_best_result(results) is called; on the characters
\* a provider's string was merged as, its first loop raises AttributeError
auto_select ==
    /\ h_pc = "aggregate"
    /\ agg_pc = "returned"
    /\ IF \E i \in DOMAIN agg_results : agg_results[i].kind # "result"
       THEN /\ h_pc' = "done"
            /\ h_ret' = Raised
            /\ UNCHANGED rvars
       ELSE /\ h_pc' = "select"
            /\ rk_pc' = "call"
            /\ rk_results' = [i \in DOMAIN agg_results |->
                                DownloadResult(agg_results[i])]
            /\ UNCHANGED <<h_ret, rk_pref, rk_limit, rk_best>>
    /\ UNCHANGED <<avars, mvars, nvars>>

\* lines 305-350 (246-290): select_best_result returned
auto_submit ==
    /\ h_pc = "select"
    /\ rk_pc = "done"
    /\ h_pc' = "done"
    /\ IF rk_best = 0
       THEN /\ h_ret' = Toast("No downloads available")
            /\ UNCHANGED <<mvars, rvars, nvars>>
       ELSE LET best == rk_results[rk_best]
                provider == ProviderRegistry_get(best.provider_name)
            IN  IF provider = 0
                THEN /\ h_ret' = Toast("Provider not found")
                     /\ UNCHANGED <<mvars, rvars, nvars>>
                ELSE /\ add_download_call(
                            best.download_url, get_yt_opts(provider),
                            IF best.filename # "" THEN best.filename ELSE None)
                     /\ h_ret' = Queued(next_id)
    /\ UNCHANGED avars

\* An auto-download request served by the application, other requests
\* submitting jobs meanwhile
AutoNext ==
    \/ \E k \in {"movie", "episode"} : auto_start(k)
    \/ lookup_raises
    \/ lookup_returns
    \/ \E p \in Providers : \E v \in ReturnValues(p) : provider_returns(p, v)
    \/ \E p \in Providers : provider_raises(p)
    \/ \E p \in Providers : provider_times_out(p)
    \/ gather_returns
    \/ auto_raised
    \/ auto_select
    \/ select_best_result
    \/ auto_submit
    \/ \E c \in CustomNames : add_download(c)

AutoSpec == AppInit /\ [][AutoNext]_vars

----------------------------------------------------------------------------
(* Properties of the DownloadManager *)

Range(q) == {q[i] : i \in DOMAIN q}
StatusOf(id) == download_status[id].status
Submitted == DOMAIN download_status

C1_Listed ==
    {<<"queued", "downloading">>, <<"downloading", "processing">>,
     <<"downloading", "completed">>, <<"processing", "completed">>,
     <<"downloading", "retrying">>, <<"retrying", "downloading">>,
     <<"downloading", "error">>}

\* the transitions out of processing that the listed ones leave out: back to
\* downloading (a later "downloading" event of the same transfer), to
\* retrying or to error (the transfer raises after a "finished" event)
C1_Amended ==
    C1_Listed \cup {<<"processing", "downloading">>,
                    <<"processing", "retrying">>, <<"processing", "error">>}

C2_Terminal(id) ==
    id \in Submitted /\ StatusOf(id) \in {"completed", "error"}

C2_EveryJobEnds ==
    /\ \A id \in JobIds : []<>(id \notin Submitted \/ C2_Terminal(id))
    /\ [][\A id \in Submitted : C2_Terminal(id) => C2_Terminal(id)']_vars
    /\ [](\A id \in Submitted :
            (StatusOf(id) = "error" /\ download_status[id].error = "429"
               /\ id \in DOMAIN jobs) => jobs[id].attempt = max_retries)

C2_Witness ==
    \E i, j \in Submitted :
        /\ StatusOf(i) = "error" /\ download_status[i].error = "429"
        /\ i \in DOMAIN jobs /\ jobs[i].attempt = max_retries
        /\ StatusOf(j) = "completed"

\* C3: a retryable failure at attempt counter a < 5 leaves the job retrying
\* with the delay retry_delays[a] and the re-submission adds exactly 1 to the
\* counter; a retryable failure at counter 5 leaves the job in error; no
\* counter exceeds 5.
C3_Retryable == {"429", "timeout"}

C3_State ==
    /\ \A id \in DOMAIN jobs : jobs[id].attempt \in 0..max_retries
    /\ \A t \in requeue_tasks :
          /\ t.job \in DOMAIN jobs
          /\ jobs[t.job].attempt < max_retries
          /\ t.delay = retry_delays[jobs[t.job].attempt + 1]
          /\ StatusOf(t.job) = "retrying"
    /\ \A w \in Workers : tpc[w] = "done" =>
          /\ StatusOf(wjob[w]) = "retrying" <=> tret[w] # 0
          /\ tret[w] # 0 =>
               /\ jobs[wjob[w]].attempt < max_retries
               /\ tret[w] = retry_delays[jobs[wjob[w]].attempt + 1]
               /\ download_status[wjob[w]].error.delay = tret[w]
          /\ (StatusOf(wjob[w]) = "error"
                /\ download_status[wjob[w]].error \in C3_Retryable)
               => jobs[wjob[w]].attempt = max_retries

C3_Step ==
    /\ \A id \in DOMAIN jobs \cap DOMAIN jobs' :
          jobs'[id].attempt # jobs[id].attempt =>
             /\ jobs'[id].attempt = jobs[id].attempt + 1
             /\ \E t \in requeue_tasks : t.job = id /\ t \notin requeue_tasks'
             /\ queue' = Append(queue, id)
    /\ \A t \in requeue_tasks' \ requeue_tasks :
          \E w \in Workers :
             /\ wjob[w] = t.job /\ tpc[w] = "done" /\ tret[w] = t.delay
             /\ StatusOf(t.job) = "retrying"

C3_RetryBudget == [][C3_State /\ C3_State' /\ C3_Step]_vars

C3_Witness ==
    \E w \in Workers :
        /\ tpc[w] = "done"
        /\ StatusOf(wjob[w]) = "error"
        /\ download_status[wjob[w]].error \in C3_Retryable
        /\ jobs[wjob[w]].attempt = max_retries

\* C4: at most max_workers jobs are being executed at once; the jobs not yet
\* taken wait in the queue.
Executing == {id \in Submitted : StatusOf(id) \in {"downloading", "processing"}}

C4_BoundedExecution ==
    /\ Cardinality(Executing) <= max_workers
    /\ Cardinality(InFlight) <= max_workers
    /\ \A id \in Submitted : StatusOf(id) = "queued" => id \in Range(queue)

C4_Witness ==
    /\ Cardinality(InFlight) = max_workers
    /\ \E id \in Range(queue) : StatusOf(id) = "queued"

\* C5: every job in the queue, held by a worker or waiting in a re-queue task
\* has a status record, every id handed out has one, and a job no worker has
\* taken yet has state queued.
Visible ==
    Range(queue) \cup {wjob[w] : w \in {u \in Workers : wjob[u] # 0}}
                 \cup {t.job : t \in requeue_tasks}

C5_StatusBeforeVisible ==
    /\ \A id \in Visible : id \in Submitted
    /\ \A id \in 1..(next_id - 1) : id \in Submitted
    /\ \A id \in Range(queue) :
          (id \in DOMAIN jobs /\ jobs[id].attempt = 0) => StatusOf(id) = "queued"

C5_Witness ==
    /\ queue # << >>
    /\ StatusOf(Head(queue)) = "queued"
    /\ \E w \in worker_tasks : wpc[w] = "get"

\* shutdown has returned
Stopped == phase = "stopped"

\* no job leaves the queue
C16_NothingDequeued ==
    Len(queue') >= Len(queue) /\ SubSeq(queue', 1, Len(queue)) = queue

\* no pending re-queue task is left and no job is put back by one
C16_NothingRequeued ==
    /\ requeue_tasks = {} /\ requeue_tasks' = {}
    /\ \A id \in DOMAIN jobs \cap DOMAIN jobs' :
          jobs'[id].attempt = jobs[id].attempt

C16_NothingStarts ==
    \A id \in Submitted :
        download_status'[id].status = "downloading"
            => StatusOf(id) = "downloading"

\* C16: once shutdown has returned no job is taken from the queue, no job
\* waiting in retrying is put back into the queue and no job's state becomes
\* downloading.
C16_StoppedStaysStopped ==
    [][Stopped => /\ C16_NothingDequeued
                  /\ C16_NothingRequeued
                  /\ C16_NothingStarts]_vars

\* C17: once shutdown has returned no transfer is running any more, so
\* that no step modifies the status record (state, percent, filename, error)
\* of a job.
C17_NoWriteAfterShutdown ==
    [][Stopped => \A id \in Submitted :
                     download_status'[id] = download_status[id]]_vars

\* C19 as stated: every job whose state is retrying eventually has state
\* downloading again, so that retrying is never the state a job is left in.
C19_RetryingIsTransient ==
    \A id \in JobIds :
        (id \in Submitted /\ StatusOf(id) = "retrying")
            ~> (id \in Submitted /\ StatusOf(id) = "downloading")

\* C19 amended: unless shutdown is called, every job whose state is retrying
\* eventually has state downloading again; a shutdown cancels the pending
\* re-queue tasks and the workers and leaves such a job retrying.
\* As a formula: retrying is left to downloading only, and no job stays
\* retrying for ever while the manager is not stopped.
C19_RetryingUnlessStopped ==
    /\ [][\A id \in Submitted :
            (StatusOf(id) = "retrying"
               /\ download_status'[id].status # "retrying")
                 => download_status'[id].status = "downloading"]_vars
    /\ \A id \in JobIds :
          []<>(Stopped \/ ~(id \in Submitted /\ StatusOf(id) = "retrying"))

\* a job downloads again after a retry, the manager running
C19_Witness ==
    /\ ~Stopped
    /\ \E id \in DOMAIN jobs :
          jobs[id].attempt > 0 /\ StatusOf(id) = "downloading"

\* a job in error or retrying carries a message, and a job in error is not
\* on its way back to a worker
C20_State ==
    \A id \in Submitted :
        /\ StatusOf(id) = "retrying"
             => download_status[id].error.remaining \in 1..max_retries
        /\ StatusOf(id) = "error" => download_status[id].error # None
        /\ StatusOf(id) = "error" =>
             /\ id \notin Range(queue)
             /\ \A t \in requeue_tasks : t.job # id
             /\ \A w \in Workers : wjob[w] = id => tret[w] = 0

\* a transfer failing with an error that is neither a rate limit nor a
\* timeout
C20_Step ==
    \A w \in Workers :
        download_raise(w, "fatal") =>
            /\ download_status'[wjob[w]].status = "error"
            /\ download_status'[wjob[w]].error = "fatal"
            /\ tret'[w] = 0
            /\ UNCHANGED <<queue, requeue_tasks>>

C18_ReturnsStopped == (sd_pc # "idle" /\ sd_pc' = "idle") => Stopped'

\* a second call leaves what the first call left
C18_SecondCallChangesNothing ==
    (Stopped /\ ShutdownStep)
        => UNCHANGED <<worker_tasks, requeue_tasks, queue, download_status>>

\* C18: shutdown, called with jobs queued, in flight or waiting for a
\* retry, always returns; called again it returns as well and leaves the
\* worker tasks, the re-queue tasks, the queue and the status table as the
\* first call left them.
C18_ShutdownTerminates ==
    /\ []<>(sd_pc = "idle")
    /\ [][C18_ReturnsStopped /\ C18_SecondCallChangesNothing]_vars

\* the first call waiting for a cancelled re-queue task, a transfer in flight
C18_Witness ==
    /\ ~Stopped
    /\ sd_pc = "wait_requeue" /\ sd_cancel # {}
    /\ InFlight # {}

----------------------------------------------------------------------------
(* Properties of the provider fan-out *)

FanOutDone == agg_pc \in {"returned", "raised"} /\ DOMAIN call = Providers

\* the results of the providers whose call returned a list, in their order
RECURSIVE GoodResults(_)
GoodResults(n) ==
    IF n = 0 THEN << >>
    ELSE GoodResults(n - 1) \o
         (IF call[n] = "returned" /\ call_ret[n].type = "list"
          THEN call_ret[n].items ELSE << >>)

\* C6: whichever providers raise or time out (the others returning lists),
\* the aggregation returns normally with exactly the results of the
\* providers that returned; a timeout cancels the call of its own provider
\* and leaves every other call and the aggregation as they are.
C6_AllKeepContract ==
    \A p \in Providers : call[p] = "returned" => call_ret[p].type = "list"

C6_State ==
    (FanOutDone /\ C6_AllKeepContract)
        => (agg_pc = "returned" /\ agg_results = GoodResults(MaxProviders))

C6_Step ==
    \A p \in DOMAIN call :
        (call[p] = "running" /\ call'[p] = "cancelled") =>
            /\ \A q \in Providers \ {p} : call'[q] = call[q]
            /\ agg_pc' = "gather"

C6_Isolation == [][C6_State /\ C6_State' /\ C6_Step]_vars

C6_Witness ==
    /\ agg_pc = "returned"
    /\ \E p, q, r \in Providers :
          /\ call[p] = "raised"
          /\ call[q] = "cancelled"
          /\ call[r] = "returned" /\ call_ret[r].type = "list"
          /\ call_ret[r].items # << >>
          /\ agg_results = call_ret[r].items

\* C7: a provider that returns None or another non-list value contributes
\* nothing; the aggregation still returns the results of the others.
C7_MalformedIsolated ==
    FanOutDone => (agg_pc = "returned" /\ agg_results = GoodResults(MaxProviders))

\* a call of either kind has ended
CallEnded == agg_pc \in {"returned", "raised"}

C26_State == agg_pc \in {"idle", "lookup"} => call = << >>

C26_Step ==
    /\ lookup_raises => (agg_pc' = "raised" /\ call' = << >>)
    /\ (agg_pc = "raised" /\ call = << >>) => UNCHANGED avars

\* C26: a lookup that fails makes the call, over all providers or for one
\* provider name, fail with that error; no provider is called before the
\* lookup has returned, and none after it has failed.
C26_LookupFailureEndsCall == [][C26_State /\ C26_State' /\ C26_Step]_vars

\* the lookup of a call for one provider name has failed
C26_Witness ==
    agg_pc = "raised" /\ agg_provider_name \in Providers /\ call = << >>

\* C27: a call for one provider name that is not registered fails: it never
\* ends with a normal return.
C27_UnknownNameFails ==
    (CallEnded /\ agg_provider_name \notin Providers \cup {0})
        => agg_pc = "raised"

\* C28: the call over all providers has no early exit: when it ends, the
\* call of every registered provider has been made and has ended (returned,
\* raised or cancelled by its timeout), also when others delivered results
\* long before.
C28_NoEarlyExit ==
    (CallEnded /\ call # << >>) =>
        /\ DOMAIN call = Providers
        /\ \A p \in Providers : call[p] \in {"returned", "raised", "cancelled"}

\* the call returned after one provider delivered results and another was
\* cut off by its timeout
C28_Witness ==
    /\ agg_pc = "returned"
    /\ \E p, q \in Providers :
          /\ call[p] = "returned" /\ task_ret[p].items # << >>
          /\ call[q] = "cancelled"

\* C29: once the lookup has succeeded the call over all providers ends,
\* whatever the providers do: a provider that never answers is cut off by
\* its timeout, contributes no result and is not waited for any further.
C29_Terminates ==
    /\ (agg_pc = "gather") ~> CallEnded
    /\ [][\A p \in DOMAIN call :
            /\ (call[p] = "running" /\ call'[p] = "cancelled") =>
                   task_ret'[p] = ListValue(<< >>)
            /\ call[p] = "cancelled" =>
                   (call'[p] = "cancelled" /\ task_ret'[p] = task_ret[p])
         ]_<<call, task_ret>>

\* the call returned although no provider ever answered
C29_Witness ==
    /\ agg_pc = "returned"
    /\ DOMAIN call = Providers
    /\ \A p \in Providers : call[p] = "cancelled"
    /\ agg_results = << >>

----------------------------------------------------------------------------
(* Properties of the result selection *)

Returned == rk_pc = "done" /\ rk_best # 0
Best == rk_results[rk_best]

\* The tier of a quality label in the order 2160p > 1080p > 720p > 480p,
\* with the labels below 480p in the lowest tier the code derives
TierOf(label) == res_score([quality |-> label])

WithinLimit(r) == res_score(r) <= TierOf(rk_limit)
Eligible == {i \in DOMAIN rk_results : WithinLimit(rk_results[i])}

\* C8: whatever the result list and the configured quality limit, the
\* result select_best_result returns has a derived quality tier that does
\* not exceed the tier of the limit.
C8_WithinLimit == Returned => WithinLimit(Best)

\* C9: select_best_result returns a member of its input that passes the
\* quality-limit filter and whose key (is_pref, q_score, -size) is the
\* lexicographic maximum over the inputs that pass the filter (None when
\* none passes).
C9_LexMaxOverEligible ==
    rk_pc = "done" =>
        IF Eligible = {} THEN rk_best = 0
        ELSE /\ rk_best \in Eligible
             /\ \A j \in Eligible :
                   ~TupleLess(score(Best), score(rk_results[j]))

CaseFold(name) ==
    IF name = "P1" THEN "p1" ELSE IF name = "P2" THEN "p2" ELSE name

\* C11: a result counts as preferred iff a preferred provider is configured
\* and the result's provider name equals it ignoring letter case; with none
\* configured no result counts as preferred.
C11_CaseInsensitivePreference ==
    rk_pc = "done" =>
        \A i \in DOMAIN rk_results :
            is_pref(rk_results[i]) =
                (IF /\ Truthy(rk_pref)
                    /\ CaseFold(rk_results[i].provider_name) = CaseFold(rk_pref)
                 THEN 1 ELSE 0)

\* the results tied with r on preference and on quality tier
TiedWith(r) ==
    {j \in DOMAIN rk_results :
        /\ is_pref(rk_results[j]) = is_pref(r)
        /\ q_score(rk_results[j]) = q_score(r)}

\* C12: among the results tied on preference and on quality tier, the one
\* select_best_result returns has the smallest size.
C12_SmallestSizeWins ==
    Returned => \A j \in TiedWith(Best) : Best.size <= rk_results[j].size

\* the result returned had a larger one tied with it, placed before it
C12_Witness ==
    /\ Returned
    /\ \E j \in TiedWith(Best) :
          j < rk_best /\ rk_results[j].size > Best.size

\* C13: select_best_result returns None exactly when its input is empty or
\* every result in it exceeds the quality limit, and a result otherwise.
C13_NoneIffNothingEligible ==
    rk_pc = "done" => (rk_best = 0 <=> Eligible = {})

\* the tier the label of a result stands for: 4 for 2160p or 4k, 3 for
\* 1080p, 2 for 720p, 0 for 360p or 240p, 1 for anything else
LabelTier(label) ==
    LET l == lower(label)
    IN  IF Contains(lower(S2160p), l) \/ Contains(lower(S4K), l) THEN 4
        ELSE IF Contains(lower(S1080p), l) THEN 3
        ELSE IF Contains(lower(S720p), l) THEN 2
        ELSE IF Contains(lower(S360p), l) \/ Contains(lower(S240p), l) THEN 0
        ELSE 1

\* C15: the quality tier select_best_result derives from a result's label,
\* in its filter and in its key, is 4 for 2160p or 4k, 3 for 1080p, 2 for
\* 720p, 0 for 360p or 240p and 1 for anything else or no label.
C15_DerivedTier ==
    rk_pc = "done" =>
        \A i \in DOMAIN rk_results :
            /\ res_score(rk_results[i]) = LabelTier(rk_results[i].quality)
            /\ q_score(rk_results[i]) = LabelTier(rk_results[i].quality)

----------------------------------------------------------------------------
(* Properties of the final rename *)

\* the directory of the downloaded file, and the directory a file is in
DownloadDir == Resolve(dirname(rn_downloaded_file))
Parent(f) == SubSeq(f, 1, Len(f) - 1)
Renamed == rn_pc = "done" /\ rn_ret # << >>

\* C21: whatever custom filename is requested, the rename target is a
\* single path component directly inside the directory of the downloaded
\* file, and the artifact is never moved out of that directory.
C21_StaysInDownloadDir ==
    rn_pc = "done" =>
        /\ Renamed =>
              /\ dirname(rn_ret) = dirname(rn_downloaded_file)
              /\ basename(rn_ret) \notin {<< >>, <<".">>, <<".", ".">>}
              /\ ~Contains(<<"/">>, basename(rn_ret))
        /\ \A f \in rn_files : Parent(f) = DownloadDir

\* os.path.splitext(path)[1]: from the last dot of the last name, unless
\* that name has only leading dots
Ext(path) ==
    LET name == basename(path)
        D == {i \in DOMAIN name : name[i] = "."}
        last == CHOOSE i \in D : \A j \in D : j <= i
    IN  IF D = {} THEN << >>
        ELSE IF \A i \in 1..(last - 1) : name[i] = "." THEN << >>
        ELSE SubSeq(name, last, Len(name))

\* C22: the path returned is the directory of the downloaded file joined
\* with the sanitized basename of the custom filename followed by the
\* extension of the downloaded file; an empty basename gives None.
C22_KeepsExtension ==
    rn_pc = "done" =>
        LET name == re_sub(basename(rn_custom_filename))
        IN  /\ name = << >> => rn_ret = << >>
            /\ Renamed =>
                  rn_ret = join(dirname(rn_downloaded_file),
                                name \o Ext(rn_downloaded_file))

----------------------------------------------------------------------------
(* Properties of the DownloadManager: file names and completion *)

FilenameOf(id) == download_status[id].filename

\* the call of worker w ends with ydl.download returned, a custom filename
\* requested, a downloaded file recorded and the rename giving no path
RenameFails(w) ==
    /\ download_ok(w, FALSE)
    /\ wjob[w] \in Submitted
    /\ Truthy(jobs[wjob[w]].custom_filename)
    /\ Truthy(temp_filenames[wjob[w]])

\* C23: if the final rename of a finished transfer fails, the job still
\* becomes completed, never error, and the filename of its status record is
\* the original path of the downloaded artifact.
C23_RenameFailureKeepsPath ==
    [][\A w \in Workers :
          RenameFails(w) =>
             /\ StatusOf(wjob[w])' = "completed"
             /\ FilenameOf(wjob[w])' = temp_filenames[wjob[w]]]_vars

\* the jobs still held somewhere that asked for a custom filename
Custom == {id \in Submitted \cap DOMAIN jobs : Truthy(jobs[id].custom_filename)}

C24_State ==
    \A id \in Custom :
        StatusOf(id) # "completed" => FilenameOf(id) = jobs[id].custom_filename

C24_Step ==
    /\ \A id \in Custom :
          FilenameOf(id)' # FilenameOf(id) =>
              StatusOf(id) # "completed" /\ StatusOf(id)' = "completed"
    /\ \A w \in Workers, d \in NameEvents :
          (/\ progress_hook(w, d)
           /\ d.status = "downloading"
           /\ wjob[w] \in Custom) =>
              /\ FilenameOf(wjob[w])' = jobs[wjob[w]].custom_filename
              /\ download_status[wjob[w]].percent' = GetOr(d.percent_str, "0%")
              /\ d.total_bytes # None =>
                    download_status[wjob[w]].total_bytes' =
                        _format_bytes(d.total_bytes)

\* C24: a job submitted with a custom filename shows the requested name in
\* the filename of its status record from submission through every progress
\* update, which still updates percent and totalBytes; the filename changes
\* only at the final rename.
C24_FilenameKept == [][C24_State' /\ C24_Step]_vars

\* a job that asked for Movie.mkv, half transferred
C24_Witness ==
    \E id \in Custom :
        /\ StatusOf(id) = "downloading"
        /\ download_status[id].percent = "50%"
        /\ download_status[id].total_bytes # None
        /\ FilenameOf(id) = "Movie.mkv"

\* C25: whenever a job is completed its percent is 100% and its error field
\* is None, also when earlier attempts of the job recorded a retry message.
C25_CompletedIsClean ==
    \A id \in Submitted :
        StatusOf(id) = "completed" =>
            /\ download_status[id].percent = "100%"
            /\ download_status[id].error = None

\* the ids add_download has returned
ReturnedIds == 1..(next_id - 1)

C30_State == Submitted = ReturnedIds

C30_Step ==
    /\ Submitted \subseteq Submitted'
    /\ Submitted' # Submitted =>
          /\ \E c \in CustomNames : add_download(c)
          /\ Submitted' = Submitted \cup {next_id}

\* C30: status records are never deleted and no job is lost: every id that
\* add_download has returned has a record in every later state, and
\* add_download is the only operation that changes the keys of the table.
C30_RecordsKept == [][C30_State /\ C30_State' /\ C30_Step]_vars

\* every job submitted has its record after one completed, one failed and
\* the manager was shut down
C30_Witness ==
    /\ Stopped
    /\ Submitted = JobIds
    /\ \E i, j \in Submitted :
          StatusOf(i) = "completed" /\ StatusOf(j) = "error"

\* the places a job can be in: the queue, a worker (from queue.get to
\* task_done, its pool thread included) and a re-queue task
InQueue(id) == {i \in DOMAIN queue : queue[i] = id}
HeldBy(id)  == {w \in Workers : wjob[w] = id}
TimersOf(id) == {t \in requeue_tasks : t.job = id}
Places(id) ==
    Cardinality(InQueue(id)) + Cardinality(HeldBy(id))
        + Cardinality(TimersOf(id))

NonTerminal(id) == StatusOf(id) \notin {"completed", "error"}

\* a step that writes the status record of a job already submitted is the
\* step of the one worker, or of the pool thread of the one worker, that
\* holds the job
C31_Step ==
    \A id \in Submitted :
        download_status'[id] # download_status[id] =>
            Cardinality(HeldBy(id) \cup {w \in Workers : wjob'[w] = id}) = 1

\* C31 as stated: in every reachable state each non-terminal job is in
\* exactly one place, once in the queue, or held by exactly one worker, or
\* waiting in exactly one retry timer.
C31_ExactlyOnePlace ==
    \A id \in Submitted : NonTerminal(id) => Places(id) = 1

\* C31 amended: in every reachable state each job is in at most one place,
\* and each non-terminal job is in exactly one until shutdown is called
\* (shutdown cancels the retry timers and the workers, and the jobs they
\* held are in no place afterwards); two workers never hold the same job
\* and the status record of a job is written only by the worker, or its
\* pool thread, that holds the job.
C31_SingleWriter ==
    /\ [](\A id \in Submitted :
            /\ Places(id) <= 1
            /\ (NonTerminal(id) /\ ~Stopped) => Places(id) = 1)
    /\ [][C31_Step]_vars

\* a worker's pool thread runs one job while another waits in its retry
\* timer, the manager running
C31_Witness ==
    /\ ~Stopped
    /\ \E i, j \in Submitted :
          /\ i # j
          /\ HeldBy(i) # {} /\ tpc[CHOOSE w \in HeldBy(i) : TRUE] = "download"
          /\ TimersOf(j) # {}

\* add_download hands the ids out in the order of its calls, so of two jobs
\* the one with the smaller id was submitted first
C32_State ==
    \A i, j \in Submitted :
        (i < j /\ StatusOf(j) # "queued") => StatusOf(i) # "queued"

\* the queue changes at its two ends only: a worker takes the job at the
\* head, a put (add_download, _requeue_job) appends at the tail
C32_Step ==
    /\ \A w \in Workers :
          (wjob'[w] # wjob[w] /\ wjob'[w] # 0) =>
              /\ queue # << >>
              /\ wjob'[w] = Head(queue)
              /\ queue' = Tail(queue)
    /\ queue' # queue =>
          \/ queue # << >> /\ queue' = Tail(queue)
          \/ \E id \in JobIds : queue' = Append(queue, id)

\* C32: the job queue is FIFO: a worker always takes the job that has been
\* in the queue longest, every put appends behind the jobs already queued,
\* and of two submitted jobs the one submitted later never leaves `queued`
\* while the one submitted first is still `queued`.
C32_QueueIsFIFO == []C32_State /\ [][C32_Step]_vars

\* a job put back by its retry timer behind a job submitted after it waits
\* while that job downloads
C32_Witness ==
    \E i, j \in Submitted :
        /\ i < j
        /\ StatusOf(j) = "downloading"
        /\ \E w \in Workers : wjob[w] = j /\ tpc[w] = "download"
        /\ queue = <<i>>
        /\ jobs[i].attempt > 0

----------------------------------------------------------------------------
(* Properties of the route handlers *)

\* what a call of queue_download with this url has to do: submit one job
\* with the url and answer its id, or answer 400 and leave the status table
\* and the queue alone
C33_Contract(url) ==
    IF urlsplit(url).scheme \in {SHttp, SHttps}
    THEN /\ h_ret' = Queued(next_id)
         /\ DOMAIN download_status' = Submitted \cup {next_id}
         /\ \A id \in Submitted : download_status'[id] = download_status[id]
         /\ download_status'[next_id].status = "queued"
         /\ queue' = Append(queue, next_id)
         /\ jobs'[next_id].url = url
    ELSE /\ h_ret' = BadRequest
         /\ UNCHANGED <<download_status, queue, jobs>>

\* C33: queue_download accepts only urls whose scheme is http or https: for
\* any other scheme it answers 400 and creates and enqueues no job; for
\* http and https it submits exactly one job and answers that job's id.
C33_OnlyHttpSubmitted ==
    [][\A url \in Urls, opts \in RequestOptions :
          queue_download(url, opts) => C33_Contract(url)]_vars

----------------------------------------------------------------------------
(* Properties of the result selection: ties *)

\* the eligible results whose key is the largest among the eligible ones
C34_Maximal ==
    {i \in Eligible :
        \A j \in Eligible :
            ~TupleLess(score(rk_results[i]), score(rk_results[j]))}

----------------------------------------------------------------------------
(* Properties of the provider fan-out: one provider against all *)

\* what the provider call of p ended with, as a value to merge: its return
\* value, or the empty list for an exception or a timeout
C35_Value(p) ==
    IF call[p] = "returned" THEN call_ret[p] ELSE ListValue(<< >>)

\* the outcomes compared: p returned something to iterate over, raised or
\* ran out of time
C35_Outcome(p) ==
    \/ call[p] \in {"raised", "cancelled"}
    \/ call[p] = "returned" /\ Iterable(call_ret[p])

\* lines 43-51 for a registry and the values of its calls: the merged list,
\* or the TypeError of a value that cannot be iterated over
C35_Merged(values) ==
    IF \A i \in DOMAIN values : Iterable(values[i])
    THEN [pc |-> "returned", results |-> Extended(values, Len(values))]
    ELSE [pc |-> "raised", results |-> << >>]

\* the function over all providers gives each call the value compared and
\* ends as the merge over the registry does
C35_All ==
    (agg_provider_name = 0 /\ call # << >>) =>
        /\ \A p \in Providers :
              call[p] # "running" => task_ret[p] = C35_Value(p)
        /\ agg_pc \in {"returned", "raised"} =>
              LET all == C35_Merged([p \in Providers |-> C35_Value(p)])
              IN  /\ agg_pc = all.pc
                  /\ agg_pc = "returned" => agg_results = all.results

\* the function for one provider name ends as the merge over the registry
\* of that provider alone does
C35_One ==
    \A s \in Providers :
        (/\ agg_provider_name = s
         /\ s \in DOMAIN call
         /\ call[s] # "running"
         /\ C35_Outcome(s))
        => /\ agg_pc = C35_Merged(<<C35_Value(s)>>).pc
           /\ agg_results = C35_Merged(<<C35_Value(s)>>).results

\* C35: for a registered provider and each of its outcomes (it returns
\* results, raises an error, exceeds the timeout) the function for one
\* provider name returns, after the same lookup, the list the function over
\* all providers returns for a registry that holds this provider only.
C35_OneAsAll == C35_All /\ C35_One

\* the call for one provider name returned the two results of its provider
C35_Witness ==
    /\ agg_provider_name \in Providers
    /\ agg_pc = "returned"
    /\ call[agg_provider_name] = "returned"
    /\ Len(agg_results) = 2
    /\ agg_results[1].kind = "result"

----------------------------------------------------------------------------
(* Properties of the DownloadManager: retries, workers and records *)

\* a job waiting for its retry is held by no worker, and a worker is either
\* waiting for a job or for the transfer it handed to the executor
C36_State ==
    /\ \A t \in requeue_tasks : \A w \in Workers : wjob[w] # t.job
    /\ \A w \in worker_tasks : wpc[w] \in {"get", "exec"}

\* a worker whose transfer came back with a delay, when it runs again (and
\* was not cancelled by a shutdown meanwhile), leaves the job to a timer and
\* waits for the next job at once; a worker waiting for a job can take the
\* head of the queue whatever the timers pending
C36_Step ==
    \A w \in Workers :
        /\ (wpc[w] = "exec" /\ tpc[w] = "done" /\ tret[w] # 0
              /\ wpc'[w] \notin {wpc[w], "cancelled"})
             => /\ wpc'[w] = "get"
                /\ wjob'[w] = 0
                /\ StatusOf(wjob[w]) = "retrying"
                /\ \E t \in requeue_tasks' \ requeue_tasks :
                      t.job = wjob[w] /\ t.delay = tret[w]
        /\ (w \in worker_tasks /\ wpc[w] = "get" /\ queue # << >>)
             => ENABLED worker_get(w)

\* C36: a backoff delay does not occupy a worker: after a transfer ends with
\* a retryable failure its worker hands the job to a timer and goes on to
\* take the next queued job, so queued jobs start downloading while jobs
\* wait in `retrying`, and the number of pending retry timers is not bounded
\* by the number of workers.
C36_BackoffFreesWorker == []C36_State /\ [][C36_Step]_vars

\* one worker, and two jobs waiting for their retry at once
C36_Witness ==
    /\ Cardinality(worker_tasks) = 1
    /\ Cardinality(requeue_tasks) = 2
    /\ \A t \in requeue_tasks : StatusOf(t.job) = "retrying"

----------------------------------------------------------------------------
(* Properties of the provider fan-out: the merged list *)

\* what provider p contributed: the items it returned, nothing if its call
\* raised or ran out of time
C37_Items(p) == IF call[p] = "returned" THEN call_ret[p].items ELSE << >>

\* the contributions of the first n providers of the registry, in its order
RECURSIVE C37_Concat(_)
C37_Concat(n) ==
    IF n = 0 THEN << >> ELSE C37_Concat(n - 1) \o C37_Items(n)

C37_State ==
    agg_provider_name = 0 =>
        /\ agg_pc = "gather" => DOMAIN call = Providers
        /\ agg_pc = "returned" =>
              /\ DOMAIN call = Providers
              /\ \A p \in Providers : call[p] # "running"
              /\ agg_results = C37_Concat(MaxProviders)

\* a provider call that has ended is not made again
C37_Step ==
    \A p \in DOMAIN call :
        call[p] # "running" => (p \in DOMAIN call' /\ call'[p] = call[p])

\* C37: the list get_provider_results_for_movie / _for_episode returns is
\* the concatenation of the lists of the providers in the order of the
\* registry, each provider called exactly once per call; it is the same
\* whatever the order in which the provider calls end.
C37_RegistryOrder == []C37_State /\ [][C37_Step]_vars

\* the first and the last provider returned results and the one between
\* them failed
C37_Witness ==
    /\ agg_provider_name = 0
    /\ agg_pc = "returned"
    /\ call[1] = "returned" /\ call_ret[1].items # << >>
    /\ call[2] \in {"raised", "cancelled"}
    /\ call[MaxProviders] = "returned"
    /\ Len(call_ret[MaxProviders].items) = 2
    /\ agg_results[1].provider_name = 1

----------------------------------------------------------------------------
(* Properties of the route handlers: auto-download *)

\* the step in which the handler acts on what select_best_result returned
C38_Submit ==
    (h_pc = "select" /\ h_pc' = "done") =>
        IF rk_best # 0 /\ Best.provider_name \in Providers
        THEN /\ h_ret' = Queued(next_id)
             /\ next_id' = next_id + 1
             /\ DOMAIN download_status' = Submitted \cup {next_id}
             /\ \A id \in Submitted : download_status'[id] = download_status[id]
             /\ download_status'[next_id].status = "queued"
             /\ queue' = Append(queue, next_id)
             /\ jobs'[next_id].url = Best.download_url
             /\ jobs'[next_id].opts = [of |-> "get_yt_opts",
                                       provider |-> Best.provider_name]
             /\ jobs'[next_id].attempt = 0
        ELSE /\ h_ret'.id = 0
             /\ UNCHANGED <<download_status, queue, jobs, next_id>>

\* the other steps of the handler submit nothing
C38_Frame ==
    (h_pc' # h_pc /\ h_pc # "select") =>
        UNCHANGED <<download_status, queue, jobs, next_id>>

\* C38: an auto-download request submits exactly one job, with the url of
\* the result select_best_result returned and the get_yt_opts() of that
\* result's provider, when select_best_result returns a result whose
\* provider is registered; when it returns None, or that provider is not in
\* the registry, no job is submitted and the queue and the status table are
\* unchanged.
C38_AutoSubmitsTheBest == [][C38_Submit /\ C38_Frame]_vars

\* the request was answered with the id of the job it submitted, a 1080p
\* result with a file name, behind a job of another request
C38_Witness ==
    /\ h_pc = "done"
    /\ h_ret = Queued(2)
    /\ queue = <<1, 2>>
    /\ q_score(Best) = 3
    /\ jobs[2].url = Best.download_url
    /\ jobs[2].custom_filename = "Movie.mkv"
    /\ jobs[2].opts.provider \in Providers

----------------------------------------------------------------------------
(* Properties of the DownloadManager: what a retry re-uses *)

\* one record per submit call that returned, and a job in the queue is
\* queued if no transfer of it was tried and retrying if one was
C39_State ==
    /\ Cardinality(Submitted) = next_id - 1
    /\ \A i \in DOMAIN queue :
          /\ queue[i] \in Submitted
          /\ queue[i] \in DOMAIN jobs
          /\ StatusOf(queue[i]) =
               (IF jobs[queue[i]].attempt > 0 THEN "retrying" ELSE "queued")

\* a record is never removed and never queued again, a job keeps its url,
\* its options and its file name, and the retry puts the same job back,
\* its record as it was
C39_Step ==
    /\ \A id \in Submitted :
          /\ id \in DOMAIN download_status'
          /\ StatusOf(id) # "queued" => download_status'[id].status # "queued"
    /\ \A id \in DOMAIN jobs \cap DOMAIN jobs' :
          /\ jobs'[id].url = jobs[id].url
          /\ jobs'[id].opts = jobs[id].opts
          /\ jobs'[id].custom_filename = jobs[id].custom_filename
    /\ \A t \in requeue_tasks :
          _requeue_job(t) =>
              /\ queue' = Append(queue, t.job)
              /\ t.job \in Submitted
              /\ jobs'[t.job].attempt = jobs[t.job].attempt + 1
              /\ UNCHANGED <<download_status, next_id>>

\* C39: a retry re-uses the job's id, url, options and status record: the
\* number of status records always equals the number of add_download calls
\* that returned, a job put back by a retry stays `retrying` until a worker
\* takes it, and no job ever returns to `queued`.
C39_RetryReusesJob == []C39_State /\ [][C39_Step]_vars

\* a job submitted with options and an https url waits in the queue for its
\* second retry, behind it a job never tried
C39_Witness ==
    /\ Len(queue) = 2
    /\ jobs[queue[1]].attempt = 2
    /\ jobs[queue[1]].opts = RequestOpts
    /\ jobs[queue[1]].url = SHttps \o <<":", "/", "/", "a">>
    /\ StatusOf(queue[1]) = "retrying"
    /\ StatusOf(queue[2]) = "queued"
====
